---- MODULE Spec2Model ----
(***************************************************************************)
(* A model of the CHIP-8 interpreter of sdamashek/chip8: the instruction   *)
(* decoder (src/src/parsing.rs), the CPU state and its opcode handlers and *)
(* fetch-decode-execute loop (src/src/cpu.rs), the framebuffer and the     *)
(* keyboard state (src/src/graphics.rs) and the program entry point        *)
(* (src/src/main.rs).                                                      *)
(***************************************************************************)
EXTENDS Integers, Sequences, FiniteSets, TLC

VARIABLES
    V,               \* CPUState.V: [u8; 16]
    I,               \* CPUState.I: u16
    pc,              \* CPUState.pc: u16
    memory,          \* CPUState.memory: [u8; 4096], as the map of its non-zero bytes
    delay_timer,     \* CPUState.delay_timer: u8
    sound_timer,     \* CPUState.sound_timer: u8
    stack,           \* CPUState.stack: [u16; 16]
    sp,              \* CPUState.sp: u16
    screen,          \* Graphics.screen: [bool; 64 * 32], as the set of its true cells
    keys,            \* Graphics.keys: [bool; 16]
    at,              \* position of the process in main / run / loadwaitk_op
    memslice,        \* the two bytes last handed to the decoder
    ins,             \* what Instruction::from_slice_one returned for them
    result,          \* the ExecResult of the last exec_op
    overflow_checks, \* the build: are arithmetic overflow checks compiled in
    fetch_pc,        \* history: the address the current instruction came from
    steps,           \* history: loop iterations started
    rom_file,        \* input: the file args[1] names
    events_left,     \* input budget: window events not raised yet
    pending,         \* the window's event queue: events raised and not polled yet
    ncalls,          \* history: Calls that returned Success
    npops,           \* history: Rets that decremented sp
    pushed,          \* history: return addresses of the Calls not yet popped
    decode_log       \* history: first decode result of every opcode decoded

cpu  == <<V, I, pc, memory, delay_timer, sound_timer, stack, sp>>
gfx  == <<screen, keys>>
hist == <<fetch_pc, steps, ncalls, npops, pushed, decode_log>>
vars == <<V, I, pc, memory, delay_timer, sound_timer, stack, sp, screen, keys,
          at, memslice, ins, result, overflow_checks, fetch_pc, steps,
          rom_file, events_left, pending, ncalls, npops, pushed, decode_log>>

----------------------------------------------------------------------------
(* Machine integers.                                                       *)

U8  == 256      \* 2^8, the modulus of u8
U16 == 65536    \* 2^16, the modulus of u16
Byte == 0 .. 255

Pow2(n) == 2 ^ n

RECURSIVE BitAnd(_, _)
BitAnd(a, b) ==
    IF a = 0 \/ b = 0 THEN 0
    ELSE (a % 2) * (b % 2) + 2 * BitAnd(a \div 2, b \div 2)

RECURSIVE BitOr(_, _)
BitOr(a, b) ==
    IF a = 0 THEN b
    ELSE IF b = 0 THEN a
    ELSE (IF a % 2 = 1 \/ b % 2 = 1 THEN 1 ELSE 0) + 2 * BitOr(a \div 2, b \div 2)

RECURSIVE BitXor(_, _)
BitXor(a, b) ==
    IF a = 0 THEN b
    ELSE IF b = 0 THEN a
    ELSE ((a + b) % 2) + 2 * BitXor(a \div 2, b \div 2)

----------------------------------------------------------------------------
(* parsing.rs: the Instruction enum.                                       *)

Sys(addr)       == [tag |-> "Sys", addr |-> addr]
Cls             == [tag |-> "Cls"]
Ret             == [tag |-> "Ret"]
Jp(addr)        == [tag |-> "Jp", addr |-> addr]
Call(addr)      == [tag |-> "Call", addr |-> addr]
SeV(vx, byte)   == [tag |-> "SeV", vx |-> vx, byte |-> byte]
SneV(vx, byte)  == [tag |-> "SneV", vx |-> vx, byte |-> byte]
Se(vx, vy)      == [tag |-> "Se", vx |-> vx, vy |-> vy]
LdV(vx, byte)   == [tag |-> "LdV", vx |-> vx, byte |-> byte]
AddV(vx, byte)  == [tag |-> "AddV", vx |-> vx, byte |-> byte]
Ld(vx, vy)      == [tag |-> "Ld", vx |-> vx, vy |-> vy]
Or(vx, vy)      == [tag |-> "Or", vx |-> vx, vy |-> vy]
And(vx, vy)     == [tag |-> "And", vx |-> vx, vy |-> vy]
Xor(vx, vy)     == [tag |-> "Xor", vx |-> vx, vy |-> vy]
Add(vx, vy)     == [tag |-> "Add", vx |-> vx, vy |-> vy]
Sub(vx, vy)     == [tag |-> "Sub", vx |-> vx, vy |-> vy]
Shr(vx)         == [tag |-> "Shr", vx |-> vx]
Subn(vx, vy)    == [tag |-> "Subn", vx |-> vx, vy |-> vy]
Shl(vx)         == [tag |-> "Shl", vx |-> vx]
Sne(vx, vy)     == [tag |-> "Sne", vx |-> vx, vy |-> vy]
LdI(addr)       == [tag |-> "LdI", addr |-> addr]
JpV0(addr)      == [tag |-> "JpV0", addr |-> addr]
Rnd(vx, byte)   == [tag |-> "Rnd", vx |-> vx, byte |-> byte]
Drw(vx, vy, n)  == [tag |-> "Drw", vx |-> vx, vy |-> vy, n |-> n]
Skp(vx)         == [tag |-> "Skp", vx |-> vx]
Sknp(vx)        == [tag |-> "Sknp", vx |-> vx]
LdDt(vx)        == [tag |-> "LdDt", vx |-> vx]
LdK(vx)         == [tag |-> "LdK", vx |-> vx]
LdTd(vx)        == [tag |-> "LdTd", vx |-> vx]
LdSt(vx)        == [tag |-> "LdSt", vx |-> vx]
AddI(vx)        == [tag |-> "AddI", vx |-> vx]
LdS(vx)         == [tag |-> "LdS", vx |-> vx]
LdBCD(vx)       == [tag |-> "LdBCD", vx |-> vx]
LdVM(vx)        == [tag |-> "LdVM", vx |-> vx]
LdMV(vx)        == [tag |-> "LdMV", vx |-> vx]

(* The values of the enum: a u16 or u8 operand holds any value of its type. *)
Instruction ==
    [tag : {"Cls", "Ret"}]
    \cup [tag : {"Sys", "Jp", "Call", "LdI", "JpV0"}, addr : 0 .. U16 - 1]
    \cup [tag : {"SeV", "SneV", "LdV", "AddV", "Rnd"}, vx : Byte, byte : Byte]
    \cup [tag : {"Se", "Ld", "Or", "And", "Xor", "Add", "Sub", "Subn", "Sne"},
          vx : Byte, vy : Byte]
    \cup [tag : {"Shr", "Shl", "Skp", "Sknp", "LdDt", "LdK", "LdTd", "LdSt",
                 "AddI", "LdS", "LdBCD", "LdVM", "LdMV"}, vx : Byte]
    \cup [tag : {"Drw"}, vx : Byte, vy : Byte, n : Byte]

Variants ==
    {"Sys", "Cls", "Ret", "Jp", "Call", "SeV", "SneV", "Se", "LdV", "AddV",
     "Ld", "Or", "And", "Xor", "Add", "Sub", "Shr", "Subn", "Shl", "Sne",
     "LdI", "JpV0", "Rnd", "Drw", "Skp", "Sknp", "LdDt", "LdK", "LdTd",
     "LdSt", "AddI", "LdS", "LdBCD", "LdVM", "LdMV"}

----------------------------------------------------------------------------
(* parsing.rs: the nom parsers.  A bit-level input is the byte slice and   *)
(* the number of bits already consumed; an IResult is Done (rest, value),  *)
(* Error or Incomplete.                                                    *)

Done(rest, val) == [res |-> "Done", rest |-> rest, val |-> val]
Error           == [res |-> "Error"]
Incomplete      == [res |-> "Incomplete"]

Some(val) == [opt |-> "Some", val |-> val]
None      == [opt |-> "None"]

RECURSIVE BigEndian(_)
BigEndian(s) ==
    IF s = <<>> THEN 0
    ELSE s[Len(s)] + U8 * BigEndian(SubSeq(s, 1, Len(s) - 1))

(* take_bits!(inp, T, n): the next n bits, most significant first, or      *)
(* Incomplete when the slice holds fewer than n more bits.                 *)
take_bits(inp, n) ==
    LET total == 8 * Len(inp.bytes)
        after == inp.off + n
    IN  IF after > total THEN Incomplete
        ELSE Done([bytes |-> inp.bytes, off |-> after],
                  (BigEndian(inp.bytes) \div Pow2(total - after)) % Pow2(n))

parse_noarg(inp) ==
    LET c == take_bits(inp, 16) IN
    IF c.res # "Done" THEN c
    ELSE CASE c.val = 224 -> Done(c.rest, Cls)      \* 0x00E0
           [] c.val = 238 -> Done(c.rest, Ret)      \* 0x00EE
           [] OTHER       -> Error

(* Mutant: the 0xB arm of the match is missing. *)
parse_onearg_nnn_no_jpv0(inp) ==
    LET g == take_bits(inp, 4) IN
    IF g.res # "Done" THEN g
    ELSE LET a == take_bits(g.rest, 12) IN
    IF a.res # "Done" THEN a
    ELSE CASE g.val = 0  -> Done(a.rest, Sys(a.val))
           [] g.val = 1  -> Done(a.rest, Jp(a.val))
           [] g.val = 2  -> Done(a.rest, Call(a.val))
           [] g.val = 10 -> Done(a.rest, LdI(a.val))
           [] OTHER      -> Error

parse_onearg_nnn(inp) ==
    LET g == take_bits(inp, 4) IN
    IF g.res # "Done" THEN g
    ELSE LET a == take_bits(g.rest, 12) IN
    IF a.res # "Done" THEN a
    ELSE CASE g.val = 0  -> Done(a.rest, Sys(a.val))
           [] g.val = 1  -> Done(a.rest, Jp(a.val))
           [] g.val = 2  -> Done(a.rest, Call(a.val))
           [] g.val = 10 -> Done(a.rest, LdI(a.val))
           [] g.val = 11 -> Done(a.rest, JpV0(a.val))
           [] OTHER      -> Error

parse_onearg_x(inp) ==
    LET g == take_bits(inp, 4) IN
    IF g.res # "Done" THEN g
    ELSE LET x == take_bits(g.rest, 4) IN
    IF x.res # "Done" THEN x
    ELSE LET id == take_bits(x.rest, 8) IN
    IF id.res # "Done" THEN id
    ELSE CASE g.val = 14 /\ id.val = 158 -> Done(id.rest, Skp(x.val))    \* 0x9E
           [] g.val = 14 /\ id.val = 161 -> Done(id.rest, Sknp(x.val))   \* 0xA1
           [] g.val = 15 /\ id.val = 7   -> Done(id.rest, LdDt(x.val))   \* 0x07
           [] g.val = 15 /\ id.val = 10  -> Done(id.rest, LdK(x.val))    \* 0x0A
           [] g.val = 15 /\ id.val = 21  -> Done(id.rest, LdTd(x.val))   \* 0x15
           [] g.val = 15 /\ id.val = 24  -> Done(id.rest, LdSt(x.val))   \* 0x18
           [] g.val = 15 /\ id.val = 30  -> Done(id.rest, AddI(x.val))   \* 0x1E
           [] g.val = 15 /\ id.val = 41  -> Done(id.rest, LdS(x.val))    \* 0x29
           [] g.val = 15 /\ id.val = 51  -> Done(id.rest, LdBCD(x.val))  \* 0x33
           [] g.val = 15 /\ id.val = 85  -> Done(id.rest, LdVM(x.val))   \* 0x55
           [] g.val = 15 /\ id.val = 101 -> Done(id.rest, LdMV(x.val))   \* 0x65
           [] OTHER                      -> Error

parse_twoarg_xkk(inp) ==
    LET g == take_bits(inp, 4) IN
    IF g.res # "Done" THEN g
    ELSE LET x == take_bits(g.rest, 4) IN
    IF x.res # "Done" THEN x
    ELSE LET kk == take_bits(x.rest, 8) IN
    IF kk.res # "Done" THEN kk
    ELSE CASE g.val = 3  -> Done(kk.rest, SeV(x.val, kk.val))
           [] g.val = 4  -> Done(kk.rest, SneV(x.val, kk.val))
           [] g.val = 6  -> Done(kk.rest, LdV(x.val, kk.val))
           [] g.val = 7  -> Done(kk.rest, AddV(x.val, kk.val))
           [] g.val = 12 -> Done(kk.rest, Rnd(x.val, kk.val))
           [] OTHER      -> Error

(* Mutant: the trailing nibble of group 5 is not matched. *)
parse_twoarg_xy_any_low(inp) ==
    LET g == take_bits(inp, 4) IN
    IF g.res # "Done" THEN g
    ELSE LET x == take_bits(g.rest, 4) IN
    IF x.res # "Done" THEN x
    ELSE LET y == take_bits(x.rest, 4) IN
    IF y.res # "Done" THEN y
    ELSE LET id == take_bits(y.rest, 4) IN
    IF id.res # "Done" THEN id
    ELSE CASE g.val = 5                -> Done(id.rest, Se(x.val, y.val))
           [] g.val = 8 /\ id.val = 0  -> Done(id.rest, Ld(x.val, y.val))
           [] g.val = 8 /\ id.val = 1  -> Done(id.rest, Or(x.val, y.val))
           [] g.val = 8 /\ id.val = 2  -> Done(id.rest, And(x.val, y.val))
           [] g.val = 8 /\ id.val = 3  -> Done(id.rest, Xor(x.val, y.val))
           [] g.val = 8 /\ id.val = 4  -> Done(id.rest, Add(x.val, y.val))
           [] g.val = 8 /\ id.val = 5  -> Done(id.rest, Sub(x.val, y.val))
           [] g.val = 8 /\ id.val = 6  -> Done(id.rest, Shr(x.val))
           [] g.val = 8 /\ id.val = 7  -> Done(id.rest, Subn(x.val, y.val))
           [] g.val = 8 /\ id.val = 14 -> Done(id.rest, Shl(x.val))
           [] g.val = 9 /\ id.val = 0  -> Done(id.rest, Sne(x.val, y.val))
           [] OTHER                    -> Error

parse_twoarg_xy(inp) ==
    LET g == take_bits(inp, 4) IN
    IF g.res # "Done" THEN g
    ELSE LET x == take_bits(g.rest, 4) IN
    IF x.res # "Done" THEN x
    ELSE LET y == take_bits(x.rest, 4) IN
    IF y.res # "Done" THEN y
    ELSE LET id == take_bits(y.rest, 4) IN
    IF id.res # "Done" THEN id
    ELSE CASE g.val = 5 /\ id.val = 0  -> Done(id.rest, Se(x.val, y.val))
           [] g.val = 8 /\ id.val = 0  -> Done(id.rest, Ld(x.val, y.val))
           [] g.val = 8 /\ id.val = 1  -> Done(id.rest, Or(x.val, y.val))
           [] g.val = 8 /\ id.val = 2  -> Done(id.rest, And(x.val, y.val))
           [] g.val = 8 /\ id.val = 3  -> Done(id.rest, Xor(x.val, y.val))
           [] g.val = 8 /\ id.val = 4  -> Done(id.rest, Add(x.val, y.val))
           [] g.val = 8 /\ id.val = 5  -> Done(id.rest, Sub(x.val, y.val))
           [] g.val = 8 /\ id.val = 6  -> Done(id.rest, Shr(x.val))
           [] g.val = 8 /\ id.val = 7  -> Done(id.rest, Subn(x.val, y.val))
           [] g.val = 8 /\ id.val = 14 -> Done(id.rest, Shl(x.val))
           [] g.val = 9 /\ id.val = 0  -> Done(id.rest, Sne(x.val, y.val))
           [] OTHER                    -> Error

(* Mutant: the x and y nibbles change places. *)
parse_threearg_swapped(inp) ==
    LET g == take_bits(inp, 4) IN
    IF g.res # "Done" THEN g
    ELSE LET x == take_bits(g.rest, 4) IN
    IF x.res # "Done" THEN x
    ELSE LET y == take_bits(x.rest, 4) IN
    IF y.res # "Done" THEN y
    ELSE LET z == take_bits(y.rest, 4) IN
    IF z.res # "Done" THEN z
    ELSE CASE g.val = 13 -> Done(z.rest, Drw(y.val, x.val, z.val))
           [] OTHER      -> Error

parse_threearg(inp) ==
    LET g == take_bits(inp, 4) IN
    IF g.res # "Done" THEN g
    ELSE LET x == take_bits(g.rest, 4) IN
    IF x.res # "Done" THEN x
    ELSE LET y == take_bits(x.rest, 4) IN
    IF y.res # "Done" THEN y
    ELSE LET z == take_bits(y.rest, 4) IN
    IF z.res # "Done" THEN z
    ELSE CASE g.val = 13 -> Done(z.rest, Drw(x.val, y.val, z.val))
           [] OTHER      -> Error

(* alt!(a | b): the result of a unless a is an Error, and then that of b.  *)
alt(a, b) == IF a.res = "Error" THEN b ELSE a

(* bits!(alt!(...)) over the whole slice; do_parse! hands the value on.    *)
parse_instruction(s) ==
    LET inp == [bytes |-> s, off |-> 0] IN
    alt(parse_noarg(inp),
    alt(parse_onearg_nnn(inp),
    alt(parse_onearg_x(inp),
    alt(parse_twoarg_xkk(inp),
    alt(parse_twoarg_xy(inp),
        parse_threearg(inp))))))

(* Mutant: the result is unwrapped, as from_slice does, and a parse that   *)
(* is not Done aborts.                                                     *)
from_slice_one_unwrap(s) ==
    LET parsed == parse_instruction(s) IN
    IF parsed.res = "Done" THEN Some(parsed.val) ELSE [opt |-> "Abort"]

from_slice_one(s) ==
    LET parsed == parse_instruction(s) IN
    CASE parsed.res = "Done"       -> Some(parsed.val)
      [] parsed.res = "Error"      -> None
      [] parsed.res = "Incomplete" -> None

----------------------------------------------------------------------------
(* cpu.rs: constants, validators and the constructor.                      *)

MEMORY_SIZE   == 4096
STACK_SIZE    == 16
ROM_START     == 512      \* 0x200
LAST_ADDR     == 4095     \* 0xFFF
FONT_BYTES    == 80
READ_BUFFER   == 128
SCREEN_WIDTH  == 64
SCREEN_HEIGHT == 32

CHIP8_FONTSET ==
    << 240, 144, 144, 144, 240,     \* 0
        32,  96,  32,  32, 112,     \* 1
       240,  16, 240, 128, 240,     \* 2
       240,  16, 240,  16, 240,     \* 3
       144, 144, 240,  16,  16,     \* 4
       240, 128, 240,  16, 240,     \* 5
       240, 128, 240, 144, 240,     \* 6
       240,  16,  32,  64,  64,     \* 7
       240, 144, 240, 144, 240,     \* 8
       240, 144, 240,  16, 240,     \* 9
       240, 144, 240, 144, 144,     \* A
       224, 144, 224, 144, 224,     \* B
       240, 128, 128, 128, 240,     \* C
       224, 144, 144, 144, 224,     \* D
       240, 128, 240, 128, 240,     \* E
       240, 128, 240, 128, 128 >>   \* F

Success      == [kind |-> "Success"]
Fail(reason) == [kind |-> "Fail", reason |-> reason]
Exit         == [kind |-> "Exit"]

valid_addr(addr) == addr <= LAST_ADDR
valid_pc(addr)   == addr >= ROM_START /\ addr <= LAST_ADDR
(* Mutant: the last register is refused. *)
valid_reg_below_15(vx) == vx < 15

valid_reg(vx)    == vx < 16

(* The 4096 bytes of memory are kept as the finite map of the non-zero     *)
(* ones: Byte_at reads an address, Pack drops the zero bytes of a map,     *)
(* Store is memory[addr] = byte.  The 2048 cells of the screen are kept as *)
(* the set of the indices that hold true.                                  *)
Byte_at(mem, addr) == IF addr \in DOMAIN mem THEN mem[addr] ELSE 0

Pack(mem) == [a \in {x \in DOMAIN mem : mem[x] # 0} |-> mem[a]]

Store(mem, addr, byte) ==
    Pack([a \in DOMAIN mem \cup {addr} |-> IF a = addr THEN byte ELSE mem[a]])

(* CPUState::new and Graphics::new, as far as the state goes.              *)
new_memory == Pack([i \in 0 .. FONT_BYTES - 1 |-> CHIP8_FONTSET[i + 1]])

new ==
    /\ V = [r \in 0 .. 15 |-> 0]
    /\ I = 0
    /\ pc = ROM_START
    /\ memory = new_memory
    /\ delay_timer = 0
    /\ sound_timer = 0
    /\ stack = [k \in 0 .. STACK_SIZE - 1 |-> 0]
    /\ sp = 0
    /\ screen = {}
    /\ keys = [k \in 0 .. 15 |-> FALSE]

----------------------------------------------------------------------------
(* cpu.rs: load_rom.  The file is read in chunks of at most 128 bytes (a  *)
(* read fills the buffer while bytes remain and returns 0 at the end); the *)
(* chunk is refused when it would end past 0xFFF, and copied otherwise.    *)

Min(a, b) == IF a <= b THEN a ELSE b

RECURSIVE read_loop(_, _, _)
read_loop(mem, i, rest) ==
    LET read == Min(READ_BUFFER, Len(rest)) IN
    IF i + read > LAST_ADDR
    THEN [ok |-> FALSE, err |-> "Too many bytes", memory |-> mem]
    ELSE IF read = 0
    THEN [ok |-> TRUE, err |-> "", memory |-> mem]
    ELSE LET written == Pack([a \in DOMAIN mem \cup (i .. i + read - 1) |->
                                IF a >= i /\ a < i + read THEN rest[a - i + 1] ELSE mem[a]])
             unread == SubSeq(rest, read + 1, Len(rest))
         IN  IF written = mem
             THEN read_loop(mem, i + read, unread)
             ELSE read_loop(written, i + read, unread)

load_rom(mem, file) ==
    CASE file.open = "NotFound" -> [ok |-> FALSE, err |-> "File not found", memory |-> mem]
      [] file.open = "Denied"   -> [ok |-> FALSE, err |-> "I/O Error opening", memory |-> mem]
      [] file.open = "Ok"       -> read_loop(mem, ROM_START, file.bytes)

----------------------------------------------------------------------------
(* graphics.rs: the keyboard and the framebuffer.                          *)

key_ind(keycode) ==
    CASE keycode = "Num1" -> Some(1)
      [] keycode = "Num2" -> Some(2)
      [] keycode = "Num3" -> Some(3)
      [] keycode = "Num4" -> Some(12)
      [] keycode = "Q"    -> Some(4)
      [] keycode = "W"    -> Some(5)
      [] keycode = "E"    -> Some(6)
      [] keycode = "R"    -> Some(13)
      [] keycode = "A"    -> Some(7)
      [] keycode = "S"    -> Some(8)
      [] keycode = "D"    -> Some(9)
      [] keycode = "F"    -> Some(14)
      [] keycode = "Z"    -> Some(10)
      [] keycode = "X"    -> Some(0)
      [] keycode = "C"    -> Some(11)
      [] keycode = "V"    -> Some(15)
      [] OTHER            -> None

(* The events the window can queue. *)
Keycodes == {"X", "Num1", "Escape", "Space"}
Events ==
    {[type |-> "Quit"], [type |-> "Other"]}
    \cup [type : {"KeyDown", "KeyUp"}, keycode : Keycodes]

(* Mutant: Escape is a key like any other. *)
RECURSIVE poll_iter_escape_ignored(_, _)
poll_iter_escape_ignored(ks, evs) ==
    IF evs = <<>> THEN [keys |-> ks, exit |-> FALSE]
    ELSE LET event == Head(evs) IN
         CASE event.type = "Quit" -> [keys |-> ks, exit |-> TRUE]
           [] event.type = "KeyDown" ->
                LET ind == key_ind(event.keycode) IN
                poll_iter_escape_ignored(
                    IF ind.opt = "Some" THEN [ks EXCEPT ![ind.val] = TRUE] ELSE ks,
                    Tail(evs))
           [] event.type = "KeyUp" ->
                LET ind == key_ind(event.keycode) IN
                poll_iter_escape_ignored(
                    IF ind.opt = "Some" THEN [ks EXCEPT ![ind.val] = FALSE] ELSE ks,
                    Tail(evs))
           [] OTHER -> poll_iter_escape_ignored(ks, Tail(evs))

(* draw_events: the queued events in order; exit(0) ends the process at a  *)
(* Quit or at Escape going down, with the events before it applied.        *)
RECURSIVE poll_iter(_, _)
poll_iter(ks, evs) ==
    IF evs = <<>> THEN [keys |-> ks, exit |-> FALSE]
    ELSE LET event == Head(evs) IN
         CASE event.type = "Quit" -> [keys |-> ks, exit |-> TRUE]
           [] event.type = "KeyDown" ->
                IF event.keycode = "Escape" THEN [keys |-> ks, exit |-> TRUE]
                ELSE LET ind == key_ind(event.keycode) IN
                     poll_iter(IF ind.opt = "Some" THEN [ks EXCEPT ![ind.val] = TRUE] ELSE ks,
                               Tail(evs))
           [] event.type = "KeyUp" ->
                LET ind == key_ind(event.keycode) IN
                poll_iter(IF ind.opt = "Some" THEN [ks EXCEPT ![ind.val] = FALSE] ELSE ks,
                          Tail(evs))
           [] OTHER -> poll_iter(ks, Tail(evs))

draw_events(evs) == poll_iter(keys, evs)

(* Mutant: a set bit turns its cell on (OR), it does not flip it (XOR). *)
RECURSIVE sprite_row_or(_, _, _, _, _, _, _)
sprite_row_or(scr, collision, x, y, slice, i, j) ==
    IF j >= 8 THEN [screen |-> scr, collision |-> collision]
    ELSE LET scy == (y + i) % SCREEN_HEIGHT
             scx == (x + j) % SCREEN_WIDTH
             scindex == scy * SCREEN_WIDTH + scx
             set_bool == ((slice[i + 1] \div Pow2(7 - j)) % 2) = 1
             lit == scindex \in scr
         IN  IF lit /\ set_bool
             THEN sprite_row_or(scr, TRUE, x, y, slice, i, j + 1)
             ELSE sprite_row_or(IF set_bool THEN scr \cup {scindex} ELSE scr,
                                collision, x, y, slice, i, j + 1)

(* draw_sprite: rows i of the slice (sprite_loop), bits j of each row from *)
(* the most significant (sprite_row); a set bit flips its cell, and the    *)
(* collision is a set bit on a lit cell.                                   *)
RECURSIVE sprite_row(_, _, _, _, _, _, _)
sprite_row(scr, collision, x, y, slice, i, j) ==
    IF j >= 8 THEN [screen |-> scr, collision |-> collision]
    ELSE LET scy == (y + i) % SCREEN_HEIGHT
             scx == (x + j) % SCREEN_WIDTH
             scindex == scy * SCREEN_WIDTH + scx
             set_bool == ((slice[i + 1] \div Pow2(7 - j)) % 2) = 1
             lit == scindex \in scr
         IN  IF lit /\ set_bool
             THEN sprite_row(scr \ {scindex}, TRUE, x, y, slice, i, j + 1)
             ELSE sprite_row(IF set_bool THEN scr \cup {scindex} ELSE scr,
                             collision, x, y, slice, i, j + 1)

RECURSIVE sprite_loop(_, _, _, _, _, _)
sprite_loop(scr, collision, x, y, slice, i) ==
    IF i >= Len(slice) THEN [screen |-> scr, collision |-> collision]
    ELSE LET row == sprite_row(scr, collision, x, y, slice, i, 0) IN
         sprite_loop(row.screen, row.collision, x, y, slice, i + 1)

draw_sprite(x, y, slice) ==
    LET r == sprite_loop(screen, FALSE, x, y, slice, 0) IN
    [screen |-> r.screen,
     result |-> IF r.collision THEN "Collision" ELSE "Success"]

clear == {}

(* Mutant: the loop runs from key 15 down. *)
active_key_last(ks) ==
    IF \E k \in 0 .. 15 : ks[k]
    THEN Some(CHOOSE k \in 0 .. 15 : ks[k] /\ \A l \in k + 1 .. 15 : ~ks[l])
    ELSE None

(* active_key: the first key held down, if any. *)
active_key(ks) ==
    IF \E k \in 0 .. 15 : ks[k]
    THEN Some(CHOOSE k \in 0 .. 15 : ks[k] /\ \A l \in 0 .. k - 1 : ~ks[l])
    ELSE None

----------------------------------------------------------------------------
(* cpu.rs: the opcode handlers.  Each is the handler together with what    *)
(* run does with its ExecResult: Return(r) is `return r` followed by the   *)
(* match of run, Panic is a Rust panic, which ends the process.            *)

Return(r) ==
    /\ result' = r
    /\ at' = IF r.kind = "Success" THEN "tick" ELSE "halted"

Panic ==
    /\ at' = "panic"
    /\ UNCHANGED result

Bit(b) == IF b THEN 1 ELSE 0

(* The closures exec_op hands to skipv_op, skip_op and arith_op, by name,  *)
(* and their application.                                                  *)
(* Mutant: the two comparisons change places. *)
call_cond_inverted(cond, a, b) ==
    CASE cond = "a == b" -> a # b
      [] cond = "a != b" -> a = b

call_cond(cond, a, b) ==
    CASE cond = "a == b" -> a = b
      [] cond = "a != b" -> a # b

call_arith(arith, a, b) ==
    CASE arith = "a | b"  -> BitOr(a, b)
      [] arith = "a & b"  -> BitAnd(a, b)
      [] arith = "a ^ b"  -> BitXor(a, b)
      [] arith = "a >> 1" -> a \div 2
      [] arith = "a << 1" -> (a * 2) % U8

clear_op ==
    /\ screen' = clear
    /\ Return(Success)
    /\ UNCHANGED <<cpu, keys>>

draw_op(vx, vy, n) ==
    IF ~valid_reg(vx) \/ ~valid_reg(vy)
    THEN Return(Fail("Invalid register(s)")) /\ UNCHANGED <<cpu, gfx>>
    ELSE IF I + n > MEMORY_SIZE     \* the slice memory[I .. I + n] is out of range
    THEN Panic /\ UNCHANGED <<cpu, gfx>>
    ELSE LET mem == [k \in 1 .. n |-> Byte_at(memory, I + k - 1)]
             d == draw_sprite(V[vx], V[vy], mem)
         IN  /\ screen' = d.screen
             /\ V' = [V EXCEPT ![15] = Bit(d.result = "Collision")]
             /\ Return(Success)
             /\ UNCHANGED <<I, pc, memory, delay_timer, sound_timer, stack, sp, keys>>

(* Mutant: sp is not decremented. *)
return_op_no_decrement ==
    IF sp = 0
    THEN Return(Exit) /\ UNCHANGED <<cpu, gfx>>
    ELSE /\ pc' = stack[sp - 1]
         /\ Return(IF ~valid_pc(stack[sp - 1]) THEN Fail("Invalid return pc") ELSE Success)
         /\ UNCHANGED <<V, I, memory, delay_timer, sound_timer, stack, sp, gfx>>

return_op ==
    IF sp = 0
    THEN Return(Exit) /\ UNCHANGED <<cpu, gfx>>
    ELSE /\ sp' = sp - 1
         /\ pc' = stack[sp - 1]
         /\ Return(IF ~valid_pc(stack[sp - 1]) THEN Fail("Invalid return pc") ELSE Success)
         /\ UNCHANGED <<V, I, memory, delay_timer, sound_timer, stack, gfx>>

jump_op(addr) ==
    IF ~valid_pc(addr)
    THEN Return(Fail("Invalid jump")) /\ UNCHANGED <<cpu, gfx>>
    ELSE /\ pc' = addr
         /\ Return(Success)
         /\ UNCHANGED <<V, I, memory, delay_timer, sound_timer, stack, sp, gfx>>

(* Mutant: the overflow test is off by one. *)
call_op_off_by_one(addr) ==
    IF ~valid_pc(addr)
    THEN Return(Fail("Invalid call")) /\ UNCHANGED <<cpu, gfx>>
    ELSE IF sp > STACK_SIZE
    THEN Return(Fail("Stack overflow")) /\ UNCHANGED <<cpu, gfx>>
    ELSE /\ stack' = [k \in 0 .. STACK_SIZE - 1 |-> IF k = sp THEN pc ELSE stack[k]]
         /\ sp' = sp + 1
         /\ pc' = addr
         /\ Return(Success)
         /\ UNCHANGED <<V, I, memory, delay_timer, sound_timer, gfx>>

(* Mutant: the address pushed is that of the Call, not of what follows. *)
call_op_pushes_call_address(addr) ==
    IF ~valid_pc(addr)
    THEN Return(Fail("Invalid call")) /\ UNCHANGED <<cpu, gfx>>
    ELSE IF sp >= STACK_SIZE
    THEN Return(Fail("Stack overflow")) /\ UNCHANGED <<cpu, gfx>>
    ELSE /\ stack' = [stack EXCEPT ![sp] = pc - 2]
         /\ sp' = sp + 1
         /\ pc' = addr
         /\ Return(Success)
         /\ UNCHANGED <<V, I, memory, delay_timer, sound_timer, gfx>>

call_op(addr) ==
    IF ~valid_pc(addr)
    THEN Return(Fail("Invalid call")) /\ UNCHANGED <<cpu, gfx>>
    ELSE IF sp >= STACK_SIZE
    THEN Return(Fail("Stack overflow")) /\ UNCHANGED <<cpu, gfx>>
    ELSE /\ stack' = [stack EXCEPT ![sp] = pc]
         /\ sp' = sp + 1
         /\ pc' = addr
         /\ Return(Success)
         /\ UNCHANGED <<V, I, memory, delay_timer, sound_timer, gfx>>

loadv_op(vx, byte) ==
    IF ~valid_reg(vx)
    THEN Return(Fail("Invalid register")) /\ UNCHANGED <<cpu, gfx>>
    ELSE /\ V' = [V EXCEPT ![vx] = byte]
         /\ Return(Success)
         /\ UNCHANGED <<I, pc, memory, delay_timer, sound_timer, stack, sp, gfx>>

(* `+=` on a u8: a panic where overflow checks are compiled in, the low 8  *)
(* bits where they are not.                                                *)
addv_op(vx, byte) ==
    IF ~valid_reg(vx)
    THEN Return(Fail("Invalid register")) /\ UNCHANGED <<cpu, gfx>>
    ELSE IF V[vx] + byte >= U8 /\ overflow_checks
    THEN Panic /\ UNCHANGED <<cpu, gfx>>
    ELSE /\ V' = [V EXCEPT ![vx] = (V[vx] + byte) % U8]
         /\ Return(Success)
         /\ UNCHANGED <<I, pc, memory, delay_timer, sound_timer, stack, sp, gfx>>

load_op(vx, vy) ==
    IF ~valid_reg(vx) \/ ~valid_reg(vy)
    THEN Return(Fail("Invalid register(s)")) /\ UNCHANGED <<cpu, gfx>>
    ELSE /\ V' = [V EXCEPT ![vx] = V[vy]]
         /\ Return(Success)
         /\ UNCHANGED <<I, pc, memory, delay_timer, sound_timer, stack, sp, gfx>>

skipv_op(vx, byte, cond) ==
    IF ~valid_reg(vx)
    THEN Return(Fail("Invalid register")) /\ UNCHANGED <<cpu, gfx>>
    ELSE /\ pc' = IF call_cond(cond, V[vx], byte) THEN pc + 2 ELSE pc
         /\ Return(Success)
         /\ UNCHANGED <<V, I, memory, delay_timer, sound_timer, stack, sp, gfx>>

skip_op(vx, vy, cond) ==
    IF ~valid_reg(vx) \/ ~valid_reg(vy)
    THEN Return(Fail("Invalid register(s)")) /\ UNCHANGED <<cpu, gfx>>
    ELSE /\ pc' = IF call_cond(cond, V[vx], V[vy]) THEN pc + 2 ELSE pc
         /\ Return(Success)
         /\ UNCHANGED <<V, I, memory, delay_timer, sound_timer, stack, sp, gfx>>

arith_op(vx, vy, arith) ==
    IF ~valid_reg(vx) \/ ~valid_reg(vy)
    THEN Return(Fail("Invalid register(s)")) /\ UNCHANGED <<cpu, gfx>>
    ELSE /\ V' = [V EXCEPT ![vx] = call_arith(arith, V[vx], V[vy])]
         /\ Return(Success)
         /\ UNCHANGED <<I, pc, memory, delay_timer, sound_timer, stack, sp, gfx>>

(* The carry is computed in 16 bits, the sum stored is `arg1 + arg2` on    *)
(* two u8: that addition panics on overflow where the checks are compiled  *)
(* in (V[0xF] is set by then) and wraps where they are not.                *)
add_op(vx, vy) ==
    IF ~valid_reg(vx) \/ ~valid_reg(vy)
    THEN Return(Fail("Invalid register(s)")) /\ UNCHANGED <<cpu, gfx>>
    ELSE LET arg1 == V[vx]
             arg2 == V[vy]
             res == arg1 + arg2
             flagged == [V EXCEPT ![15] = Bit(res > 255)]
         IN  IF res >= U8 /\ overflow_checks
             THEN /\ V' = flagged
                  /\ Panic
                  /\ UNCHANGED <<I, pc, memory, delay_timer, sound_timer, stack, sp, gfx>>
             ELSE /\ V' = [flagged EXCEPT ![vx] = res % U8]
                  /\ Return(Success)
                  /\ UNCHANGED <<I, pc, memory, delay_timer, sound_timer, stack, sp, gfx>>

sub_op(vx, vy) ==
    IF ~valid_reg(vx) \/ ~valid_reg(vy)
    THEN Return(Fail("Invalid register(s)")) /\ UNCHANGED <<cpu, gfx>>
    ELSE LET arg1 == V[vx]
             arg2 == V[vy]
             flagged == [V EXCEPT ![15] = Bit(arg1 > arg2)]
         IN  IF arg1 - arg2 < 0 /\ overflow_checks
             THEN /\ V' = flagged
                  /\ Panic
                  /\ UNCHANGED <<I, pc, memory, delay_timer, sound_timer, stack, sp, gfx>>
             ELSE /\ V' = [flagged EXCEPT ![vx] = (arg1 - arg2) % U8]
                  /\ Return(Success)
                  /\ UNCHANGED <<I, pc, memory, delay_timer, sound_timer, stack, sp, gfx>>

loadi_op(addr) ==
    /\ I' = addr
    /\ Return(Success)
    /\ UNCHANGED <<V, pc, memory, delay_timer, sound_timer, stack, sp, gfx>>

jumpv0_op(addr) ==
    LET dest == V[0] + addr IN
    IF ~valid_pc(dest)
    THEN Return(Fail("Invalid jump destination")) /\ UNCHANGED <<cpu, gfx>>
    ELSE /\ pc' = dest
         /\ Return(Success)
         /\ UNCHANGED <<V, I, memory, delay_timer, sound_timer, stack, sp, gfx>>

(* The bytes rand::thread_rng().gen() is taken to return. *)
RandomBytes == {0, 90, 255}

rand_op(vx, byte) ==
    IF ~valid_reg(vx)
    THEN Return(Fail("Invalid register")) /\ UNCHANGED <<cpu, gfx>>
    ELSE \E val \in RandomBytes :
         /\ V' = [V EXCEPT ![vx] = BitAnd(val, byte)]
         /\ Return(Success)
         /\ UNCHANGED <<I, pc, memory, delay_timer, sound_timer, stack, sp, gfx>>

(* keys has 16 entries: keys[x] with x >= 16 panics. *)
skipk_op(vx, down) ==
    IF ~valid_reg(vx)
    THEN Return(Fail("Invalid register")) /\ UNCHANGED <<cpu, gfx>>
    ELSE LET x == V[vx] IN
         IF x >= 16
         THEN Panic /\ UNCHANGED <<cpu, gfx>>
         ELSE /\ pc' = IF keys[x] = down THEN pc + 2 ELSE pc
              /\ Return(Success)
              /\ UNCHANGED <<V, I, memory, delay_timer, sound_timer, stack, sp, gfx>>

loaddt_op(vx) ==
    IF ~valid_reg(vx)
    THEN Return(Fail("Invalid register")) /\ UNCHANGED <<cpu, gfx>>
    ELSE /\ V' = [V EXCEPT ![vx] = delay_timer]
         /\ Return(Success)
         /\ UNCHANGED <<I, pc, memory, delay_timer, sound_timer, stack, sp, gfx>>

(* With no key down the handler stays in its while loop: position "ldk". *)
loadwaitk_op(vx) ==
    IF ~valid_reg(vx)
    THEN Return(Fail("Invalid register")) /\ UNCHANGED <<cpu, gfx>>
    ELSE LET k == active_key(keys) IN
         IF k.opt = "Some"
         THEN /\ V' = [V EXCEPT ![vx] = k.val]
              /\ Return(Success)
              /\ UNCHANGED <<I, pc, memory, delay_timer, sound_timer, stack, sp, gfx>>
         ELSE /\ at' = "ldk"
              /\ UNCHANGED <<result, cpu, gfx>>

loadtd_op(vx) ==
    IF ~valid_reg(vx)
    THEN Return(Fail("Invalid register")) /\ UNCHANGED <<cpu, gfx>>
    ELSE /\ delay_timer' = V[vx]
         /\ Return(Success)
         /\ UNCHANGED <<V, I, pc, memory, sound_timer, stack, sp, gfx>>

loadst_op(vx) ==
    IF ~valid_reg(vx)
    THEN Return(Fail("Invalid register")) /\ UNCHANGED <<cpu, gfx>>
    ELSE /\ sound_timer' = V[vx]
         /\ Return(Success)
         /\ UNCHANGED <<V, I, pc, memory, delay_timer, stack, sp, gfx>>

addi_op(vx) ==
    IF ~valid_reg(vx)
    THEN Return(Fail("Invalid register")) /\ UNCHANGED <<cpu, gfx>>
    ELSE IF I + V[vx] >= U16 /\ overflow_checks
    THEN Panic /\ UNCHANGED <<cpu, gfx>>
    ELSE /\ I' = (I + V[vx]) % U16
         /\ Return(Success)
         /\ UNCHANGED <<V, pc, memory, delay_timer, sound_timer, stack, sp, gfx>>

loads_op(vx) ==
    IF ~valid_reg(vx)
    THEN Return(Fail("Invalid register")) /\ UNCHANGED <<cpu, gfx>>
    ELSE /\ I' = 5 * V[vx]
         /\ Return(Success)
         /\ UNCHANGED <<V, pc, memory, delay_timer, sound_timer, stack, sp, gfx>>

(* `self.I + 2` is a u16 addition (a panic or a wrap on overflow); after a *)
(* wrap the check passes and memory[I] is out of range, which panics.      *)
loadbcd_op(vx) ==
    IF ~valid_reg(vx)
    THEN Return(Fail("Invalid register")) /\ UNCHANGED <<cpu, gfx>>
    ELSE IF I + 2 >= U16 /\ overflow_checks
    THEN Panic /\ UNCHANGED <<cpu, gfx>>
    ELSE IF ~valid_addr((I + 2) % U16)
    THEN Return(Fail("Invalid destination addr")) /\ UNCHANGED <<cpu, gfx>>
    ELSE IF I >= MEMORY_SIZE
    THEN Panic /\ UNCHANGED <<cpu, gfx>>
    ELSE LET val == V[vx]
             hundreds == val \div 100
             tens == (val % 100) \div 10
             ones == (val % 100) % 10
         IN  /\ memory' = Store(Store(Store(memory, I, hundreds), I + 1, tens), I + 2, ones)
             /\ Return(Success)
             /\ UNCHANGED <<V, I, pc, delay_timer, sound_timer, stack, sp, gfx>>

loadvm_op(vx) ==
    IF ~valid_reg(vx)
    THEN Return(Fail("Invalid register")) /\ UNCHANGED <<cpu, gfx>>
    ELSE IF I + vx >= U16 /\ overflow_checks
    THEN Panic /\ UNCHANGED <<cpu, gfx>>
    ELSE IF ~valid_addr((I + vx) % U16)
    THEN Return(Fail("Invalid destination addr")) /\ UNCHANGED <<cpu, gfx>>
    ELSE IF I >= MEMORY_SIZE
    THEN Panic /\ UNCHANGED <<cpu, gfx>>
    ELSE /\ memory' = Pack([a \in DOMAIN memory \cup (I .. I + vx) |->
                               IF a >= I /\ a <= I + vx THEN V[a - I] ELSE memory[a]])
         /\ Return(Success)
         /\ UNCHANGED <<V, I, pc, delay_timer, sound_timer, stack, sp, gfx>>

loadmv_op(vx) ==
    IF ~valid_reg(vx)
    THEN Return(Fail("Invalid register")) /\ UNCHANGED <<cpu, gfx>>
    ELSE IF I + vx >= U16 /\ overflow_checks
    THEN Panic /\ UNCHANGED <<cpu, gfx>>
    ELSE IF ~valid_addr((I + vx) % U16)
    THEN Return(Fail("Invalid destination addr")) /\ UNCHANGED <<cpu, gfx>>
    ELSE IF I >= MEMORY_SIZE
    THEN Panic /\ UNCHANGED <<cpu, gfx>>
    ELSE /\ V' = [r \in 0 .. 15 |-> IF r <= vx THEN Byte_at(memory, I + r) ELSE V[r]]
         /\ Return(Success)
         /\ UNCHANGED <<I, pc, memory, delay_timer, sound_timer, stack, sp, gfx>>

----------------------------------------------------------------------------
(* cpu.rs: exec_op, the dispatch on the decoded instruction.               *)

exec_op(op) ==
    CASE op.tag = "Sys"   -> Return(Success) /\ UNCHANGED <<cpu, gfx>>
      [] op.tag = "Cls"   -> clear_op
      [] op.tag = "Ret"   -> return_op
      [] op.tag = "Jp"    -> jump_op(op.addr)
      [] op.tag = "Call"  -> call_op(op.addr)
      [] op.tag = "SeV"   -> skipv_op(op.vx, op.byte, "a == b")
      [] op.tag = "SneV"  -> skipv_op(op.vx, op.byte, "a != b")
      [] op.tag = "Se"    -> skip_op(op.vx, op.vy, "a == b")
      [] op.tag = "Sne"   -> skip_op(op.vx, op.vy, "a != b")
      [] op.tag = "LdV"   -> loadv_op(op.vx, op.byte)
      [] op.tag = "AddV"  -> addv_op(op.vx, op.byte)
      [] op.tag = "Ld"    -> load_op(op.vx, op.vy)
      [] op.tag = "Or"    -> arith_op(op.vx, op.vy, "a | b")
      [] op.tag = "And"   -> arith_op(op.vx, op.vy, "a & b")
      [] op.tag = "Xor"   -> arith_op(op.vx, op.vy, "a ^ b")
      [] op.tag = "Add"   -> add_op(op.vx, op.vy)
      [] op.tag = "Sub"   -> sub_op(op.vx, op.vy)
      [] op.tag = "Shr"   -> arith_op(op.vx, op.vx, "a >> 1")
      [] op.tag = "Subn"  -> sub_op(op.vy, op.vx)
      [] op.tag = "Shl"   -> arith_op(op.vx, op.vx, "a << 1")
      [] op.tag = "LdI"   -> loadi_op(op.addr)
      [] op.tag = "JpV0"  -> jumpv0_op(op.addr)
      [] op.tag = "Rnd"   -> rand_op(op.vx, op.byte)
      [] op.tag = "Drw"   -> draw_op(op.vx, op.vy, op.n)
      [] op.tag = "Skp"   -> skipk_op(op.vx, TRUE)
      [] op.tag = "Sknp"  -> skipk_op(op.vx, FALSE)
      [] op.tag = "LdDt"  -> loaddt_op(op.vx)
      [] op.tag = "LdK"   -> loadwaitk_op(op.vx)
      [] op.tag = "LdTd"  -> loadtd_op(op.vx)
      [] op.tag = "LdSt"  -> loadst_op(op.vx)
      [] op.tag = "AddI"  -> addi_op(op.vx)
      [] op.tag = "LdS"   -> loads_op(op.vx)
      [] op.tag = "LdBCD" -> loadbcd_op(op.vx)
      [] op.tag = "LdVM"  -> loadvm_op(op.vx)
      [] op.tag = "LdMV"  -> loadmv_op(op.vx)

----------------------------------------------------------------------------
(* Bounds and inputs.                                                      *)

MaxSteps   == 18   \* loop iterations a run is followed for
MaxEvents  == 1    \* window events raised during a run
MaxDecodes == 2    \* times the decoder is applied to one input
MaxWaitEvents == 2 \* window events raised during a run of a key-wait program
MaxLongSteps == 245 \* loop iterations a run of a long program is followed for

(* An opcode from its four nibbles, and a ROM image from its opcodes. *)
Op(a, b, c, d) == <<16 * a + b, 16 * c + d>>
Hi(byte) == byte \div 16
Lo(byte) == byte % 16

Image(ops) == [k \in 1 .. 2 * Len(ops) |-> ops[(k + 1) \div 2][((k + 1) % 2) + 1]]

RET == Op(0, 0, 14, 14)

Regs  == {0, 1, 15}
Vals  == {0, 2, 255}
Addrs == {0, 79, 768, 4094}    \* 0x000, 0x04F, 0x300, 0xFFE

(* LdV x,a; LdV y,b; then one two-register instruction. *)
TwoRegPrograms ==
    {<<Op(6, x, Hi(a), Lo(a)), Op(6, y, Hi(b), Lo(b)), Op(g[1], x, y, g[2]), RET, RET>> :
        x \in Regs, y \in Regs, a \in Vals, b \in Vals,
        g \in ({8} \X {0, 1, 2, 3, 4, 5, 6, 7, 14}) \cup {<<5, 0>>, <<9, 0>>}}

(* LdV x,a; then one register-immediate instruction. *)
ImmediatePrograms ==
    {<<Op(6, x, Hi(a), Lo(a)), Op(g, x, Hi(kk), Lo(kk)), RET, RET>> :
        x \in Regs, a \in Vals, kk \in Vals, g \in {3, 4, 7, 12}}

(* LdI addr; LdV x,a; then one one-register instruction or a draw. *)
OneRegPrograms ==
    {<<Op(10, n \div 256, Hi(n % 256), Lo(n)), Op(6, x, Hi(a), Lo(a)),
       Op(g[1], x, g[2], g[3]), RET, RET>> :
        n \in Addrs, x \in Regs, a \in Vals,
        g \in {<<14, 9, 14>>, <<14, 10, 1>>, <<15, 0, 7>>, <<15, 0, 10>>,
               <<15, 1, 5>>, <<15, 1, 8>>, <<15, 1, 14>>, <<15, 2, 9>>,
               <<15, 3, 3>>, <<15, 5, 5>>, <<15, 6, 5>>, <<13, 0, 2>>}}

(* Calls, returns and jumps among the first words of the ROM. *)
CallOps ==
    {Op(2, 2, 0, 0), Op(2, 2, 0, 2), Op(2, 2, 0, 4), Op(2, 1, 0, 0),
     RET, Op(1, 2, 0, 0), Op(11, 2, 0, 2)}
CallPrograms == UNION {[1 .. m -> CallOps] : m \in 1 .. 3}

(* Timers set and left to run, with a key wait in between. *)
TimerPrograms ==
    {<<Op(6, 0, Hi(a), Lo(a)), Op(15, 0, 1, 5), Op(15, 0, 1, 8), Op(0, 0, 0, 0),
       Op(15, 1, 0, 10), Op(15, 2, 0, 7), Op(0, 0, 14, 0), Op(15, 15, 15, 15)>> :
        a \in Vals}

(* Two key waits in a row. *)
KeyPrograms == {<<Op(15, x, 0, 10), Op(15, y, 0, 10), RET>> : x \in Regs, y \in Regs}

(* LdV V0,5; LdV V1,3; Add V0,V1. *)
ScenarioPrograms == {<<Op(6, 0, 0, 5), Op(6, 1, 0, 3), Op(8, 0, 1, 4)>>}

(* LdI addr; LdV x,a; LdV y,b; then the same draw twice: the font, zeroed  *)
(* memory or the last two bytes of memory as the sprite, 0 to 15 rows.     *)
DrawPrograms ==
    {<<Op(10, n \div 256, Hi(n % 256), Lo(n)), Op(6, x, Hi(a), Lo(a)),
       Op(6, y, Hi(b), Lo(b)), Op(13, x, y, h), Op(13, x, y, h), RET>> :
        n \in {0, 768, 4094}, x \in {0, 1}, y \in {1, 15},
        a \in {0, 60, 255}, b \in {0, 30, 255}, h \in {0, 1, 5, 15}}

(* LdI 0xFF0; LdV V0,0xFF; AddI V0 241 times, which leaves I = 0xFFFF     *)
(* with no addition overflowing; then one instruction on memory[I ..].     *)
AddIRun == [k \in 1 .. 241 |-> Op(15, 0, 1, 14)]
LongPrograms ==
    {<<Op(10, 15, 15, 0), Op(6, 0, 15, 15)>> \o AddIRun \o <<g>> :
        g \in {Op(15, 0, 3, 3), Op(15, 1, 5, 5), Op(15, 1, 6, 5)}}

(* LdI addr; LdV x,a; LdBCD x. *)
BcdPrograms ==
    {<<Op(10, n \div 256, Hi(n % 256), Lo(n)), Op(6, x, Hi(a), Lo(a)),
       Op(15, x, 3, 3), RET>> :
        n \in {768, 4093, 4094}, x \in {0, 15}, a \in {7, 90, 109, 255}}

(* LdI addr; LdV V0,a; LdV V1,b; LdVM x; LdV V0,7; LdV V1,9; LdMV x. *)
StoreLoadPrograms ==
    {<<Op(10, n \div 256, Hi(n % 256), Lo(n)), Op(6, 0, Hi(ab[1]), Lo(ab[1])),
       Op(6, 1, Hi(ab[2]), Lo(ab[2])), Op(15, x, 5, 5), Op(6, 0, 0, 7),
       Op(6, 1, 0, 9), Op(15, x, 6, 5), RET>> :
        n \in {79, 768, 4080, 4094, 4095}, x \in {0, 1, 15},
        ab \in {<<2, 255>>, <<255, 0>>}}

(* A ROM file of n bytes: a program, then bytes that are never zero. *)
Padded(ops, n) ==
    [k \in 1 .. n |-> IF k <= 2 * Len(ops) THEN Image(ops)[k] ELSE (k % 255) + 1]

(* Two key waits, padded to one byte, one read, and to the bytes that fit  *)
(* in memory[0x200 ..= 0xFFF], one less and one more.                      *)
RomSizes == {6, 7, 128, 129, 3583, 3584, 3585}
SizedFiles ==
    {[open |-> "Ok", bytes |-> Padded(p, n)] : p \in KeyPrograms, n \in RomSizes}
    \cup {[open |-> "NotFound", bytes |-> <<>>], [open |-> "Denied", bytes |-> <<>>]}

(* One instruction, then bytes that do not decode: every variant with     *)
(* every register in each register operand, and the ends of the ranges of  *)
(* the other operands.                                                     *)
Nibbles == 0 .. 15
OperandOps ==
    {Op(g, x, Hi(kk), Lo(kk)) : g \in {3, 4, 6, 7, 12}, x \in Nibbles, kk \in {0, 255}}
    \cup {Op(g[1], x, y, g[2]) :
            g \in ({8} \X {0, 1, 2, 3, 4, 5, 6, 7, 14}) \cup {<<5, 0>>, <<9, 0>>},
            x \in Nibbles, y \in Nibbles}
    \cup {Op(13, x, y, n) : x \in Nibbles, y \in Nibbles, n \in {0, 15}}
    \cup {Op(g[1], x, g[2], g[3]) :
            g \in {<<14, 9, 14>>, <<14, 10, 1>>, <<15, 0, 7>>, <<15, 0, 10>>,
                   <<15, 1, 5>>, <<15, 1, 8>>, <<15, 1, 14>>, <<15, 2, 9>>,
                   <<15, 3, 3>>, <<15, 5, 5>>, <<15, 6, 5>>},
            x \in Nibbles}
    \cup {Op(g, n \div 256, Hi(n % 256), Lo(n)) :
            g \in {0, 1, 2, 10, 11}, n \in {0, 224, 238, 512, 4095}}
OperandPrograms == {<<op, Op(15, 15, 15, 15)>> : op \in OperandOps}

MemoryPrograms == LongPrograms \cup BcdPrograms \cup StoreLoadPrograms \cup KeyPrograms

(* The last addresses of memory: a jump to 0xFFF or to 0xFFE, and an      *)
(* instruction a,b stored at 0xFFE and jumped to: a call of the RET, a     *)
(* load, a skip taken, a skip not taken, a return.                         *)
EdgePrograms ==
    {<<Op(1, 15, 15, 15)>>, <<Op(1, 15, 15, 14)>>}
    \cup {<<Op(10, 15, 15, 14), Op(6, 0, Hi(ab[1]), Lo(ab[1])),
            Op(6, 1, Hi(ab[2]), Lo(ab[2])), Op(15, 1, 5, 5), Op(1, 15, 15, 14), RET>> :
            ab \in {<<34, 10>>, <<96, 1>>, <<64, 0>>, <<48, 0>>, <<0, 238>>}}

Programs ==
    TwoRegPrograms \cup ImmediatePrograms \cup OneRegPrograms
    \cup CallPrograms \cup TimerPrograms \cup ScenarioPrograms \cup DrawPrograms
    \cup EdgePrograms

Files ==
    {[open |-> "Ok", bytes |-> Image(p)] : p \in Programs}
    \cup {[open |-> "NotFound", bytes |-> <<>>], [open |-> "Denied", bytes |-> <<>>]}

----------------------------------------------------------------------------
(* main.rs and cpu.rs: the process.  Positions: "load" (main, before       *)
(* load_rom), "poll", "fetch", "exec", "tick" (the four parts of one       *)
(* iteration of run), "ldk" (inside the while loop of loadwaitk_op),       *)
(* "halted" (run returned), "exit" (exit(0) from draw_events), "panic".    *)

NotRun == [kind |-> "NotRun"]

(* The iterations the run of the ROM loaded is followed for. *)
StepLimit == IF Len(rom_file.bytes) > 4 * MaxSteps THEN MaxLongSteps ELSE MaxSteps

Init ==
    /\ new
    /\ at = "load"
    /\ rom_file \in Files
    /\ overflow_checks \in BOOLEAN
    /\ events_left = MaxEvents
    /\ pending = <<>>
    /\ memslice = <<>>
    /\ ins = None
    /\ result = NotRun
    /\ fetch_pc = ROM_START
    /\ steps = 0
    /\ ncalls = 0
    /\ npops = 0
    /\ pushed = <<>>
    /\ decode_log = <<>>

(* main: c.load_rom(&args[1]).unwrap(); c.run(); *)
LoadRom ==
    /\ at = "load"
    /\ LET r == load_rom(memory, rom_file) IN
       /\ memory' = r.memory
       /\ at' = IF r.ok THEN "poll" ELSE "panic"
    /\ UNCHANGED <<V, I, pc, delay_timer, sound_timer, stack, sp, gfx, memslice, ins,
                   result, overflow_checks, rom_file, events_left, pending, hist>>

(* The environment: the window queues one more event.  The queue is read   *)
(* by draw_events alone, so an event raised at any point of an iteration   *)
(* is an event raised just before the poll that finds it.                  *)
Raise ==
    /\ at \in {"poll", "ldk"}
    /\ at = "poll" => steps < MaxSteps
    /\ events_left > 0
    /\ \E event \in Events : pending' = Append(pending, event)
    /\ events_left' = events_left - 1
    /\ UNCHANGED <<cpu, gfx, at, memslice, ins, result, overflow_checks, rom_file, hist>>

(* run, line 533: self.graphics.draw_events(). *)
Poll ==
    /\ at = "poll"
    /\ steps < StepLimit
    /\ LET d == draw_events(pending) IN
       /\ keys' = d.keys
       /\ pending' = <<>>
       /\ at' = IF d.exit THEN "exit" ELSE "fetch"
    /\ UNCHANGED <<cpu, screen, memslice, ins, result, overflow_checks, rom_file,
                   events_left, hist>>

Logged(log, s, o) ==
    IF \E k \in DOMAIN log : log[k].bytes = s THEN log
    ELSE Append(log, [bytes |-> s, decoded |-> o])

(* Mutant: pc is not advanced past the instruction fetched. *)
Fetch_pc_not_advanced ==
    /\ at = "fetch"
    /\ IF pc + 2 > MEMORY_SIZE
       THEN /\ at' = "panic"
            /\ UNCHANGED <<pc, memslice, ins, decode_log>>
       ELSE LET s == <<Byte_at(memory, pc), Byte_at(memory, pc + 1)>>
                o == from_slice_one(s)
            IN  /\ memslice' = s
                /\ ins' = o
                /\ decode_log' = Logged(decode_log, s, o)
                /\ at' = IF o.opt = "Some" THEN "exec" ELSE "halted"
                /\ pc' = pc
    /\ fetch_pc' = pc
    /\ steps' = steps + 1
    /\ UNCHANGED <<V, I, memory, delay_timer, sound_timer, stack, sp, gfx, result,
                   overflow_checks, rom_file, events_left, pending, ncalls, npops, pushed>>

(* run, lines 535-545: the slice memory[pc .. pc + 2], the decoder, and    *)
(* pc += 2 when it decoded.  The slice is out of range, a panic, when      *)
(* pc + 2 > 4096.                                                          *)
Fetch ==
    /\ at = "fetch"
    /\ IF pc + 2 > MEMORY_SIZE
       THEN /\ at' = "panic"
            /\ UNCHANGED <<pc, memslice, ins, decode_log>>
       ELSE LET s == <<Byte_at(memory, pc), Byte_at(memory, pc + 1)>>
                o == from_slice_one(s)
            IN  /\ memslice' = s
                /\ ins' = o
                /\ decode_log' = Logged(decode_log, s, o)
                /\ IF o.opt = "Some"
                   THEN at' = "exec" /\ pc' = pc + 2
                   ELSE at' = "halted" /\ pc' = pc
    /\ fetch_pc' = pc
    /\ steps' = steps + 1
    /\ UNCHANGED <<V, I, memory, delay_timer, sound_timer, stack, sp, gfx, result,
                   overflow_checks, rom_file, events_left, pending, ncalls, npops, pushed>>

(* run, lines 547-556: exec_op and the match on its result.  The history   *)
(* follows the calls: a Call that succeeded leaves the address after it    *)
(* to return to, a Ret with a call outstanding takes the last one back.    *)
Exec ==
    /\ at = "exec"
    /\ exec_op(ins.val)
    /\ LET called == ins.val.tag = "Call" /\ at' = "tick"
           popped == ins.val.tag = "Ret" /\ pushed # <<>>
       IN  /\ ncalls' = IF called THEN ncalls + 1 ELSE ncalls
           /\ npops'  = IF popped THEN npops + 1 ELSE npops
           /\ pushed' = IF called THEN Append(pushed, fetch_pc + 2)
                        ELSE IF popped THEN SubSeq(pushed, 1, Len(pushed) - 1)
                        ELSE pushed
    /\ UNCHANGED <<memslice, ins, overflow_checks, rom_file, events_left, pending,
                   fetch_pc, steps, decode_log>>

(* loadwaitk_op, lines 373-380: one more turn of the while loop. *)
loadwaitk_spin ==
    /\ at = "ldk"
    /\ LET d == draw_events(pending)
           k == active_key(d.keys)
       IN  /\ keys' = d.keys
           /\ pending' = <<>>
           /\ IF d.exit
              THEN at' = "exit" /\ UNCHANGED <<V, result>>
              ELSE IF k.opt = "Some"
              THEN V' = [V EXCEPT ![ins.val.vx] = k.val] /\ Return(Success)
              ELSE at' = "ldk" /\ UNCHANGED <<V, result>>
    /\ UNCHANGED <<I, pc, memory, delay_timer, sound_timer, stack, sp, screen, memslice,
                   ins, overflow_checks, rom_file, events_left, hist>>

(* Mutant: the timers are decremented without the test for zero. *)
Tick_unguarded ==
    /\ at = "tick"
    /\ delay_timer' = (delay_timer - 1) % U8
    /\ sound_timer' = (sound_timer - 1) % U8
    /\ at' = "poll"
    /\ UNCHANGED <<V, I, pc, memory, stack, sp, gfx, memslice, ins, result,
                   overflow_checks, rom_file, events_left, pending, hist>>

(* run, lines 558-566: the timers, then the next iteration. *)
Tick ==
    /\ at = "tick"
    /\ delay_timer' = IF delay_timer > 0 THEN delay_timer - 1 ELSE delay_timer
    /\ sound_timer' = IF sound_timer > 0 THEN sound_timer - 1 ELSE sound_timer
    /\ at' = "poll"
    /\ UNCHANGED <<V, I, pc, memory, stack, sp, gfx, memslice, ins, result,
                   overflow_checks, rom_file, events_left, pending, hist>>

Next == LoadRom \/ Raise \/ Poll \/ Fetch \/ Exec \/ loadwaitk_spin \/ Tick

Spec == Init /\ [][Next]_vars

----------------------------------------------------------------------------
(* The decoder alone, on every two-byte input.                             *)

InitDecode ==
    /\ new
    /\ at = "decode"
    /\ rom_file = [open |-> "NotFound", bytes |-> <<>>]
    /\ overflow_checks \in {TRUE}
    /\ events_left = 0
    /\ pending = <<>>
    /\ memslice \in Byte \X Byte
    /\ ins = None
    /\ result = NotRun
    /\ fetch_pc = ROM_START
    /\ steps = 0
    /\ ncalls = 0
    /\ npops = 0
    /\ pushed = <<>>
    /\ decode_log = <<>>

Decode ==
    /\ at = "decode"
    /\ steps < MaxDecodes
    /\ LET o == from_slice_one(memslice) IN
       /\ ins' = o
       /\ decode_log' = Logged(decode_log, memslice, o)
    /\ steps' = steps + 1
    /\ UNCHANGED <<cpu, gfx, at, memslice, result, overflow_checks, rom_file,
                   events_left, pending, fetch_pc, ncalls, npops, pushed>>

DecodeSpec == InitDecode /\ [][Decode]_vars

----------------------------------------------------------------------------
(* The key-wait programs alone, with the polls fair: main and run are one  *)
(* thread that nothing suspends, so a call of draw_events the process has  *)
(* reached, at the head of the loop of run or in the while loop of         *)
(* loadwaitk_op, is made.  The window raises events or not, as it likes.   *)

InitWait ==
    /\ new
    /\ at = "load"
    /\ rom_file \in {[open |-> "Ok", bytes |-> Image(p)] : p \in KeyPrograms \cup TimerPrograms}
    /\ overflow_checks \in BOOLEAN
    /\ events_left = MaxWaitEvents
    /\ pending = <<>>
    /\ memslice = <<>>
    /\ ins = None
    /\ result = NotRun
    /\ fetch_pc = ROM_START
    /\ steps = 0
    /\ ncalls = 0
    /\ npops = 0
    /\ pushed = <<>>
    /\ decode_log = <<>>

WaitSpec == InitWait /\ [][Next]_vars /\ WF_vars(Poll) /\ WF_vars(loadwaitk_spin)

----------------------------------------------------------------------------
(* One instruction of every variant and register: what the decoder hands   *)
(* to the handlers.                                                        *)

InitOperand ==
    /\ new
    /\ at = "load"
    /\ rom_file \in {[open |-> "Ok", bytes |-> Image(p)] : p \in OperandPrograms}
    /\ overflow_checks \in BOOLEAN
    /\ events_left = MaxEvents
    /\ pending = <<>>
    /\ memslice = <<>>
    /\ ins = None
    /\ result = NotRun
    /\ fetch_pc = ROM_START
    /\ steps = 0
    /\ ncalls = 0
    /\ npops = 0
    /\ pushed = <<>>
    /\ decode_log = <<>>

OperandSpec == InitOperand /\ [][Next]_vars

----------------------------------------------------------------------------
(* ROM files by size: what load_rom accepts.                               *)

InitLoad ==
    /\ new
    /\ at = "load"
    /\ rom_file \in SizedFiles
    /\ overflow_checks \in BOOLEAN
    /\ events_left = MaxEvents
    /\ pending = <<>>
    /\ memslice = <<>>
    /\ ins = None
    /\ result = NotRun
    /\ fetch_pc = ROM_START
    /\ steps = 0
    /\ ncalls = 0
    /\ npops = 0
    /\ pushed = <<>>
    /\ decode_log = <<>>

LoadSpec == InitLoad /\ [][Next]_vars

----------------------------------------------------------------------------
(* The programs on memory[I ..]: the decimal digits, the register block    *)
(* stored and loaded back, and I beyond the 4096 bytes.                    *)

InitMemory ==
    /\ new
    /\ at = "load"
    /\ rom_file \in {[open |-> "Ok", bytes |-> Image(p)] : p \in MemoryPrograms}
    /\ overflow_checks \in BOOLEAN
    /\ events_left = MaxEvents
    /\ pending = <<>>
    /\ memslice = <<>>
    /\ ins = None
    /\ result = NotRun
    /\ fetch_pc = ROM_START
    /\ steps = 0
    /\ ncalls = 0
    /\ npops = 0
    /\ pushed = <<>>
    /\ decode_log = <<>>

MemorySpec == InitMemory /\ [][Next]_vars

----------------------------------------------------------------------------
(* The decoder: claims C1 to C4, under DecodeSpec.                         *)

Decoded == at = "decode" /\ steps > 0

(* C1: the decoder is total and deterministic.  Once the two bytes have    *)
(* been decoded, what from_slice_one returned is either None or Some of    *)
(* one value of the Instruction enum (it did not abort), the CPU state and *)
(* the graphics state are those the constructor left, and every decode of  *)
(* these bytes so far returned this same value.                            *)
C1_DecodeTotalDeterministic ==
    Decoded =>
        /\ \/ ins = None
           \/ DOMAIN ins = {"opt", "val"} /\ ins.opt = "Some" /\ ins.val \in Instruction
        /\ V = [r \in 0 .. 15 |-> 0] /\ I = 0 /\ pc = ROM_START /\ sp = 0
        /\ memory = new_memory /\ stack = [k \in 0 .. STACK_SIZE - 1 |-> 0]
        /\ delay_timer = 0 /\ sound_timer = 0 /\ screen = {}
        /\ keys = [k \in 0 .. 15 |-> FALSE]
        /\ \A k \in DOMAIN decode_log :
              decode_log[k].bytes = memslice => decode_log[k].decoded = ins

(* C1 witness: an input decoded twice, to an instruction both times. *)
C1_Witness ==
    /\ at = "decode" /\ steps = 2 /\ memslice = <<138, 180>>
    /\ ins = Some(Add(10, 11))
    /\ decode_log = <<[bytes |-> <<138, 180>>, decoded |-> Some(Add(10, 11))] >>

(* The inputs the decoder is said to refuse, from the nibbles of the opcode. *)
SaidToFail(s) ==
    LET group == Hi(s[1])
        low == Lo(s[2])
    IN  \/ group \in {5, 9} /\ low # 0
        \/ group = 8 /\ low \notin (0 .. 7) \cup {14}
        \/ group = 14 /\ s[2] \notin {158, 161}
        \/ group = 15 /\ s[2] \notin {7, 10, 21, 24, 30, 41, 51, 85, 101}

(* C2: decoding fails on exactly the inputs of SaidToFail, and every input *)
(* of group 0 decodes, to Cls, Ret or Sys.                                 *)
C2_DecodeFailsExactly ==
    Decoded =>
        /\ (ins = None) <=> SaidToFail(memslice)
        /\ Hi(memslice[1]) = 0 =>
              ins.opt = "Some" /\ ins.val.tag \in {"Cls", "Ret", "Sys"}

(* C2 witnesses: a refused input of group 8, and a group 0 input decoded. *)
C2_Witness ==
    Decoded /\ memslice = <<138, 184>> /\ ins = None

(* The instruction an opcode stands for, from its bit fields. *)
Fields(s) ==
    LET opcode == 256 * s[1] + s[2] IN
    [group |-> opcode \div 4096,
     x     |-> (opcode \div 256) % 16,
     y     |-> (opcode \div 16) % 16,
     n     |-> opcode % 16,
     kk    |-> opcode % 256,
     addr  |-> opcode % 4096]

SaidToDecodeTo(s) ==
    LET f == Fields(s) IN
    CASE f.group = 0  -> IF f.addr = 224 THEN Cls
                         ELSE IF f.addr = 238 THEN Ret ELSE Sys(f.addr)
      [] f.group = 1  -> Jp(f.addr)
      [] f.group = 2  -> Call(f.addr)
      [] f.group = 3  -> SeV(f.x, f.kk)
      [] f.group = 4  -> SneV(f.x, f.kk)
      [] f.group = 5  -> Se(f.x, f.y)
      [] f.group = 6  -> LdV(f.x, f.kk)
      [] f.group = 7  -> AddV(f.x, f.kk)
      [] f.group = 8  -> CASE f.n = 0  -> Ld(f.x, f.y)
                           [] f.n = 1  -> Or(f.x, f.y)
                           [] f.n = 2  -> And(f.x, f.y)
                           [] f.n = 3  -> Xor(f.x, f.y)
                           [] f.n = 4  -> Add(f.x, f.y)
                           [] f.n = 5  -> Sub(f.x, f.y)
                           [] f.n = 6  -> Shr(f.x)
                           [] f.n = 7  -> Subn(f.x, f.y)
                           [] OTHER    -> Shl(f.x)
      [] f.group = 9  -> Sne(f.x, f.y)
      [] f.group = 10 -> LdI(f.addr)
      [] f.group = 11 -> JpV0(f.addr)
      [] f.group = 12 -> Rnd(f.x, f.kk)
      [] f.group = 13 -> Drw(f.x, f.y, f.n)
      [] f.group = 14 -> IF f.kk = 158 THEN Skp(f.x) ELSE Sknp(f.x)
      [] f.group = 15 -> CASE f.kk = 7  -> LdDt(f.x)
                           [] f.kk = 10 -> LdK(f.x)
                           [] f.kk = 21 -> LdTd(f.x)
                           [] f.kk = 24 -> LdSt(f.x)
                           [] f.kk = 30 -> AddI(f.x)
                           [] f.kk = 41 -> LdS(f.x)
                           [] f.kk = 51 -> LdBCD(f.x)
                           [] f.kk = 85 -> LdVM(f.x)
                           [] OTHER     -> LdMV(f.x)

(* C3: an input that decodes, decodes to the variant its group and         *)
(* sub-selector name, with the opcode's bit fields as operands; the six    *)
(* examples are among them.                                                *)
C3_DecodeFields ==
    (Decoded /\ ins.opt = "Some") =>
        /\ ins.val = SaidToDecodeTo(memslice)
        /\ memslice = <<0, 224>>   => ins.val = Cls
        /\ memslice = <<0, 238>>   => ins.val = Ret
        /\ memslice = <<18, 52>>   => ins.val = Jp(564)
        /\ memslice = <<106, 7>>   => ins.val = LdV(10, 7)
        /\ memslice = <<138, 180>> => ins.val = Add(10, 11)
        /\ memslice = <<209, 47>>  => ins.val = Drw(1, 2, 15)

(* C3 witness: the draw of the examples, decoded. *)
C3_Witness ==
    Decoded /\ memslice = <<209, 47>> /\ ins = Some(Drw(1, 2, 15))

(* One encoding of every variant. *)
Canonical ==
    [Sys  |-> <<0, 0>>,     Cls   |-> <<0, 224>>,   Ret  |-> <<0, 238>>,
     Jp   |-> <<18, 52>>,   Call  |-> <<34, 0>>,    SeV  |-> <<48, 0>>,
     SneV |-> <<64, 0>>,    Se    |-> <<80, 0>>,    LdV  |-> <<96, 0>>,
     AddV |-> <<112, 0>>,   Ld    |-> <<128, 0>>,   Or   |-> <<128, 1>>,
     And  |-> <<128, 2>>,   Xor   |-> <<128, 3>>,   Add  |-> <<128, 4>>,
     Sub  |-> <<128, 5>>,   Shr   |-> <<128, 6>>,   Subn |-> <<128, 7>>,
     Shl  |-> <<128, 14>>,  Sne   |-> <<144, 0>>,   LdI  |-> <<160, 0>>,
     JpV0 |-> <<176, 0>>,   Rnd   |-> <<192, 0>>,   Drw  |-> <<208, 0>>,
     Skp  |-> <<224, 158>>, Sknp  |-> <<224, 161>>, LdDt |-> <<240, 7>>,
     LdK  |-> <<240, 10>>,  LdTd  |-> <<240, 21>>,  LdSt |-> <<240, 24>>,
     AddI |-> <<240, 30>>,  LdS   |-> <<240, 41>>,  LdBCD |-> <<240, 51>>,
     LdVM |-> <<240, 85>>,  LdMV  |-> <<240, 101>>]

(* C4: the enum has 35 variants and each has an encoding: the decoder      *)
(* turns the encoding listed for a variant into an instruction of that     *)
(* variant.                                                                *)
C4_EveryVariantDecoded ==
    /\ Cardinality(Variants) = 35
    /\ DOMAIN Canonical = Variants
    /\ \A t \in Variants :
          (Decoded /\ memslice = Canonical[t]) => (ins.opt = "Some" /\ ins.val.tag = t)

(* C4 witness: the encoding of JpV0 decoded to JpV0. *)
C4_Witness ==
    Decoded /\ memslice = Canonical["JpV0"] /\ ins.opt = "Some" /\ ins.val.tag = "JpV0"

----------------------------------------------------------------------------
(* The engine: claims C5 to C10, under Spec.                               *)

Executing(tags) == at = "exec" /\ ins.val.tag \in tags

(* C5: Add(vx, vy) returns Success whatever the registers hold, leaves     *)
(* V[0xF] = 1 if the sum of the two registers as they were exceeds 255 and *)
(* V[0xF] = 0 if not, and leaves the low 8 bits of the sum in V[vx].       *)
C5_AddCarryAndWrap ==
    [][Executing({"Add"}) =>
          LET sum == V[ins.val.vx] + V[ins.val.vy] IN
          /\ at' = "tick" /\ result' = Success
          /\ V'[15] = Bit(sum > 255)
          /\ V'[ins.val.vx] = sum % U8]_vars

(* C6: with fewer than 16 calls outstanding a Call to an address of the    *)
(* program space returns Success, so 16 Calls in a row from an empty stack *)
(* do; with 16 outstanding, the 17th, it returns Fail("Stack overflow")    *)
(* and sp stays 16; a Ret with none outstanding returns Exit.              *)
C6_StackDiscipline ==
    [][/\ (Executing({"Call"}) /\ valid_pc(ins.val.addr) /\ Len(pushed) < 16) =>
              (result' = Success /\ at' = "tick" /\ sp' = Len(pushed) + 1)
       /\ (Executing({"Call"}) /\ valid_pc(ins.val.addr) /\ Len(pushed) = 16) =>
              (result' = Fail("Stack overflow") /\ at' = "halted" /\ sp' = 16)
       /\ (Executing({"Ret"}) /\ Len(pushed) = 0) =>
              (result' = Exit /\ at' = "halted")]_vars

(* C6 witness: the program that calls itself, 16 Calls done and the 17th   *)
(* refused.                                                                *)
C6_Witness ==
    /\ steps = 17 /\ ncalls = 16 /\ npops = 0 /\ ins = Some(Call(512))
    /\ at = "halted" /\ result = Fail("Stack overflow") /\ sp = 16

(* C7: sp stays within 0 .. 16 and counts the used slots: it is the number *)
(* of successful Calls less the number of Rets that popped, and            *)
(* stack[0 .. sp) holds the return addresses of the Calls not yet returned *)
(* from, in the order of the calls.                                        *)
C7_StackPointerCountsUsedSlots ==
    /\ sp \in 0 .. 16
    /\ sp = ncalls - npops
    /\ sp = Len(pushed)
    /\ \A k \in 0 .. sp - 1 : stack[k] = pushed[k + 1]

(* C7 witness: two calls nested, after an earlier call and return. *)
C7_Witness ==
    /\ ncalls = 3 /\ npops = 1 /\ sp = 2
    /\ pushed[1] # pushed[2]

(* C8: the 80 font bytes at memory[0x000 .. 0x050) are those of            *)
(* CHIP8_FONTSET in every state: no ROM load and no instruction changes    *)
(* them.                                                                   *)
C8_FontNeverChanges ==
    \A i \in 0 .. FONT_BYTES - 1 : Byte_at(memory, i) = CHIP8_FONTSET[i + 1]

Skips == {"SeV", "SneV", "Se", "Sne"}

SkipPredicate(op) ==
    CASE op.tag = "SeV"  -> V[op.vx] = op.byte
      [] op.tag = "SneV" -> V[op.vx] # op.byte
      [] op.tag = "Se"   -> V[op.vx] = V[op.vy]
      [] op.tag = "Sne"  -> V[op.vx] # V[op.vy]

(* C9: the iteration that fetched SeV, SneV, Se or Sne at address p ends   *)
(* with pc = p + 4 when the predicate of the instruction holds and with    *)
(* pc = p + 2 when it does not, and with every register as it was.         *)
C9_SkipSemantics ==
    /\ [][Executing(Skips) =>
             /\ result' = Success /\ at' = "tick"
             /\ pc' = fetch_pc + (IF SkipPredicate(ins.val) THEN 4 ELSE 2)
             /\ V' = V]_vars
    /\ [][(at = "tick" /\ ins.val.tag \in Skips) => (pc' = pc /\ V' = V)]_vars

(* C9 witness: an SeV that skipped. *)
C9_Witness ==
    /\ at = "poll" /\ ins.opt = "Some" /\ ins.val.tag = "SeV"
    /\ V[ins.val.vx] = ins.val.byte /\ pc = fetch_pc + 4

Max0(v) == IF v > 0 THEN v ELSE 0

Stopped == {"halted", "exit", "panic"}

(* C10: the timers stay within 0 .. 255; the iteration of an instruction   *)
(* that returned Success, and only that, goes on to the timers, and there  *)
(* each timer becomes max(0, v - 1) of the value v the instruction left;   *)
(* an iteration that stops the loop, and the wait inside LdK, leave both   *)
(* timers as they are.                                                     *)
C10_TimersTick ==
    /\ [](delay_timer \in 0 .. 255 /\ sound_timer \in 0 .. 255)
    /\ [][at = "tick" =>
             /\ result = Success
             /\ delay_timer' = Max0(delay_timer - 1)
             /\ sound_timer' = Max0(sound_timer - 1)
             /\ at' = "poll"]_vars
    /\ [][(at \in {"exec", "ldk"} /\ result' = Success /\ at' \notin Stopped /\ at' # "ldk")
             => at' = "tick"]_vars
    /\ [][(at' \in Stopped \/ at = "ldk" \/ at' = "ldk") =>
             (delay_timer' = delay_timer /\ sound_timer' = sound_timer)]_vars
    /\ [][(delay_timer' # delay_timer \/ sound_timer' # sound_timer) =>
             (at = "tick" \/ Executing({"LdTd", "LdSt"}))]_vars

(* C10 witness: timers set to 255 and then run down over four iterations,  *)
(* the last of them a key wait that a key press ended.                     *)
C10_Witness ==
    /\ at = "poll" /\ steps = 5 /\ ins = Some(LdK(1)) /\ events_left = 0
    /\ delay_timer = 251 /\ sound_timer = 252

----------------------------------------------------------------------------
(* The engine: claims C11 to C20, under Spec.                              *)

Loaded(program) == rom_file = [open |-> "Ok", bytes |-> Image(program)]

ControlFlow == {"Jp", "Call", "Ret", "JpV0", "SeV", "SneV", "Se", "Sne", "Skp", "Sknp"}

(* C11: with the ROM LdV V0,5; LdV V1,3; Add V0,V1 loaded, each of the     *)
(* first three iterations returns Success and the loop goes on, and after  *)
(* the third V[0] = 8, V[1] = 3, V[0xF] = 0 and pc = 0x206; and in every   *)
(* run the iteration of an instruction that is no jump, call, return or    *)
(* skip, fetched at p, leaves pc = p + 2.                                  *)
C11_ThreeStepScenario ==
    /\ []((Loaded(<<Op(6, 0, 0, 5), Op(6, 1, 0, 3), Op(8, 0, 1, 4)>>) /\ steps \in 1 .. 3) =>
            /\ at \notin {"halted", "panic"}
            /\ at = "tick" => result = Success
            /\ (steps = 3 /\ at \in {"tick", "poll"}) =>
                  (V[0] = 8 /\ V[1] = 3 /\ V[15] = 0 /\ pc = 518))
    /\ [][Executing(Variants \ ControlFlow) => pc' = fetch_pc + 2]_vars
    /\ [][(at \in {"tick", "ldk"} /\ ins.val.tag \notin ControlFlow) => pc' = pc]_vars

(* C11 witness: the three iterations done. *)
C11_Witness ==
    /\ Loaded(<<Op(6, 0, 0, 5), Op(6, 1, 0, 3), Op(8, 0, 1, 4)>>)
    /\ steps = 3 /\ at = "poll" /\ result = Success /\ ins = Some(Add(0, 1))
    /\ V[0] = 8 /\ V[1] = 3 /\ V[15] = 0 /\ pc = 518

(* The rows a draw reads, and the cells a sprite covers: bit 7 - j of row  *)
(* i at column x + j modulo 64 of line y + i modulo 32.                    *)
SpriteRows(n) == [k \in 1 .. n |-> Byte_at(memory, I + k - 1)]

SpriteCells(x, y, rows) ==
    {((y + i) % 32) * 64 + ((x + j) % 64) :
        <<i, j>> \in {c \in (0 .. Len(rows) - 1) \X (0 .. 7) :
                         (rows[c[1] + 1] \div (2 ^ (7 - c[2]))) % 2 = 1}}

(* C12: a draw of a sprite of 1 to 15 rows with a bit set, on the cleared  *)
(* display, returns Success with V[0xF] = 0 and lights exactly the cells   *)
(* of the sprite, columns taken modulo 64 and lines modulo 32; the same    *)
(* draw again, on the display the first one left, returns Success with     *)
(* V[0xF] = 1 and leaves the display cleared.                              *)
C12_DrawTwiceCollides ==
    [][(/\ Executing({"Drw"}) /\ ins.val.n \in 1 .. 15 /\ I + ins.val.n <= MEMORY_SIZE
        /\ \E k \in 1 .. ins.val.n : SpriteRows(ins.val.n)[k] # 0) =>
          LET cells == SpriteCells(V[ins.val.vx], V[ins.val.vy], SpriteRows(ins.val.n)) IN
          /\ cells # {}
          /\ screen = {} =>
                (result' = Success /\ at' = "tick" /\ V'[15] = 0 /\ screen' = cells)
          /\ screen = cells =>
                (result' = Success /\ at' = "tick" /\ V'[15] = 1 /\ screen' = {})]_vars

(* C12 witness: the second of two draws of 15 rows of the font at column   *)
(* 60 and line 30, where the sprite wraps both ways, reported a collision. *)
C12_Witness ==
    /\ steps = 5 /\ at = "tick" /\ ins = Some(Drw(0, 1, 15)) /\ I = 0
    /\ memslice = <<208, 31>> /\ Byte_at(memory, fetch_pc - 2) = 208
    /\ V[0] = 60 /\ V[1] = 30 /\ V[15] = 1 /\ screen = {}

(* C13: Shr(vx) leaves the previous V[vx] shifted right by one in V[vx]    *)
(* and its lowest bit in V[0xF]; Shl(vx) leaves the low 8 bits of the      *)
(* previous V[vx] shifted left by one in V[vx] and its highest bit in      *)
(* V[0xF].                                                                 *)
C13_ShiftSetsFlag ==
    [][/\ Executing({"Shr"}) =>
              (V'[ins.val.vx] = V[ins.val.vx] \div 2 /\ V'[15] = V[ins.val.vx] % 2)
       /\ Executing({"Shl"}) =>
              (V'[ins.val.vx] = (2 * V[ins.val.vx]) % U8 /\ V'[15] = V[ins.val.vx] \div 128)]_vars

(* C14: Drw(vx, vy, n) with I + n beyond the 4096 bytes of memory returns  *)
(* Fail, the process goes on to report it and nothing is drawn; otherwise  *)
(* it draws the n bytes memory[I .. I + n), returns Success and leaves     *)
(* V[0xF] = 1 if a lit cell met a set bit and V[0xF] = 0 if none did.      *)
C14_DrawBounds ==
    [][Executing({"Drw"}) =>
          IF I + ins.val.n > MEMORY_SIZE
          THEN result'.kind = "Fail" /\ at' = "halted" /\ screen' = screen /\ V' = V
          ELSE LET cells == SpriteCells(V[ins.val.vx], V[ins.val.vy], SpriteRows(ins.val.n)) IN
               /\ result' = Success /\ at' = "tick"
               /\ V'[15] = Bit(cells \cap screen # {})
               /\ screen' = (screen \ cells) \cup (cells \ screen)]_vars

(* C17: Sub(vx, vy) returns Success whatever the registers hold, leaves    *)
(* V[0xF] = 1 if V[vx] was greater than V[vy] and V[0xF] = 0 if it was     *)
(* less or equal, and leaves V[vx] - V[vy] modulo 256 in V[vx].            *)
C17_SubBorrowAndWrap ==
    [][Executing({"Sub"}) =>
          LET arg1 == V[ins.val.vx]
              arg2 == V[ins.val.vy]
          IN  /\ at' = "tick" /\ result' = Success
              /\ V'[15] = Bit(arg1 > arg2)
              /\ V'[ins.val.vx] = (arg1 - arg2) % U8]_vars

(* C18: AddV(vx, kk) returns Success whatever V[vx] and kk are and leaves  *)
(* V[vx] + kk modulo 256 in V[vx], every other register (V[0xF] among      *)
(* them when vx is not 0xF) and I as they were; AddI(vx) returns Success   *)
(* and adds V[vx] to I, every register as it was.                          *)
C18_AddImmediateNoFlag ==
    [][/\ Executing({"AddV"}) =>
              /\ at' = "tick" /\ result' = Success
              /\ V' = [V EXCEPT ![ins.val.vx] = (V[ins.val.vx] + ins.val.byte) % U8]
              /\ I' = I
       /\ Executing({"AddI"}) =>
              /\ at' = "tick" /\ result' = Success
              /\ I' = (I + V[ins.val.vx]) % U16
              /\ V' = V]_vars

----------------------------------------------------------------------------
(* The instructions on memory[I ..]: claims C19 and C20, under MemorySpec. *)

Registers == <<V, I, pc, delay_timer, sound_timer, stack, sp>>

(* C19: LdBCD(vx) with I + 2 <= 0xFFF returns Success and leaves the       *)
(* hundreds, tens and ones digits of V[vx] at memory[I], memory[I + 1] and *)
(* memory[I + 2], every other byte of memory and every register as it was; *)
(* with any other value of the 16-bit register I it returns Fail and       *)
(* leaves memory and the registers as they were.                           *)
C19_BcdDigits ==
    [][Executing({"LdBCD"}) =>
          IF I + 2 <= LAST_ADDR
          THEN LET val == V[ins.val.vx] IN
               /\ result' = Success /\ at' = "tick"
               /\ Byte_at(memory', I) = val \div 100
               /\ Byte_at(memory', I + 1) = (val \div 10) % 10
               /\ Byte_at(memory', I + 2) = val % 10
               /\ \A a \in (0 .. LAST_ADDR) \ (I .. I + 2) :
                      Byte_at(memory', a) = Byte_at(memory, a)
               /\ Registers' = Registers
          ELSE /\ result'.kind = "Fail" /\ at' = "halted"
               /\ memory' = memory
               /\ Registers' = Registers]_vars

(* C20: for every vx and I with I + vx <= 0xFFF, LdVM(vx) returns Success  *)
(* and leaves V[0 ..= vx] at memory[I ..= I + vx], every other byte and    *)
(* every register as it was, and LdMV(vx) returns Success and leaves       *)
(* memory[I ..= I + vx] in V[0 ..= vx], the other registers and memory as  *)
(* they were, so that it restores what a LdVM(vx) with the same I stored;  *)
(* with the range out of bounds each returns Fail and changes nothing.     *)
C20_StoreLoadInverse ==
    [][/\ Executing({"LdVM"}) =>
              IF I + ins.val.vx <= LAST_ADDR
              THEN /\ result' = Success /\ at' = "tick"
                   /\ \A a \in 0 .. LAST_ADDR :
                          Byte_at(memory', a) =
                              IF a \in I .. I + ins.val.vx THEN V[a - I]
                              ELSE Byte_at(memory, a)
                   /\ Registers' = Registers
              ELSE /\ result'.kind = "Fail" /\ at' = "halted"
                   /\ memory' = memory
                   /\ Registers' = Registers
       /\ Executing({"LdMV"}) =>
              IF I + ins.val.vx <= LAST_ADDR
              THEN /\ result' = Success /\ at' = "tick"
                   /\ \A r \in 0 .. 15 :
                          V'[r] = IF r <= ins.val.vx THEN Byte_at(memory, I + r) ELSE V[r]
                   /\ memory' = memory
                   /\ <<I, pc, delay_timer, sound_timer, stack, sp>>' =
                          <<I, pc, delay_timer, sound_timer, stack, sp>>
              ELSE /\ result'.kind = "Fail" /\ at' = "halted"
                   /\ memory' = memory
                   /\ Registers' = Registers]_vars

(* C22: a Call(addr) that succeeds, fetched at p, leaves p + 2 on the      *)
(* stack and pc = addr; a Ret with calls outstanding leaves pc = p + 2 for *)
(* the p of the last Call not yet returned from, and sp as it was before   *)
(* that Call, the number of calls then outstanding; it returns Fail when   *)
(* the address popped is outside 0x200 ..= 0xFFF and Success otherwise.    *)
C22_CallRetPairUp ==
    [][/\ (Executing({"Call"}) /\ at' = "tick") =>
              /\ sp = Len(pushed)
              /\ stack'[sp] = fetch_pc + 2
              /\ pc' = ins.val.addr
              /\ sp' = sp + 1
       /\ (Executing({"Ret"}) /\ pushed # <<>>) =>
              LET back == pushed[Len(pushed)] IN
              /\ pc' = back
              /\ sp' = Len(pushed) - 1
              /\ IF valid_pc(back)
                 THEN result' = Success /\ at' = "tick"
                 ELSE result'.kind = "Fail" /\ at' = "halted"]_vars

(* C22 witness: two calls nested and both returned from, the second Ret    *)
(* back at the instruction after the first Call.                           *)
C22_Witness ==
    /\ at = "tick" /\ ins = Some(Ret) /\ result = Success
    /\ ncalls = 2 /\ npops = 2 /\ sp = 0 /\ pc = ROM_START + 2

(* C23: Subn(vx, vy) does what Sub(vy, vx) does from the same state: it   *)
(* returns Success, leaves V[vy] - V[vx] modulo 256 in V[vy] and           *)
(* V[0xF] = 1 exactly when V[vy] was greater than V[vx], and leaves V[vx]  *)
(* as it was when vx is neither vy nor 0xF.                                *)
C23_SubnIsSubSwapped ==
    [][Executing({"Subn"}) =>
          LET vx == ins.val.vx
              vy == ins.val.vy
          IN  /\ sub_op(vy, vx)
              /\ result' = Success /\ at' = "tick"
              /\ V'[vy] = (V[vy] - V[vx]) % U8
              /\ V'[15] = Bit(V[vy] > V[vx])
              /\ vx \notin {vy, 15} => V'[vx] = V[vx]]_vars

(* C25: Skp(vx) and Sknp(vx) return Success whatever V[vx] holds, 0 to    *)
(* 255; fetched at p, Skp leaves pc = p + 4 when key V[vx] is down in the  *)
(* last snapshot polled and pc = p + 2 when it is not, Sknp the other way  *)
(* round, and neither changes a register.                                  *)
C25_KeySkipsInBounds ==
    [][Executing({"Skp", "Sknp"}) =>
          LET down == V[ins.val.vx] \in 0 .. 15 /\ keys[V[ins.val.vx]] IN
          /\ result' = Success /\ at' = "tick"
          /\ pc' = fetch_pc + (IF down = (ins.val.tag = "Skp") THEN 4 ELSE 2)
          /\ <<V, I, delay_timer, sound_timer, stack, sp>>' =
                 <<V, I, delay_timer, sound_timer, stack, sp>>]_vars

(* C24: at the start of every iteration of run, when the two bytes at pc   *)
(* are about to be read, 0x200 <= pc and pc + 1 <= 0xFFF: both lie inside  *)
(* memory and the program space.                                           *)
C24_FetchInBounds ==
    at \in {"poll", "fetch"} => (ROM_START <= pc /\ pc + 1 <= LAST_ADDR)

----------------------------------------------------------------------------
(* Loading: claim C21, under LoadSpec.                                     *)

(* C21: load_rom of a file that opens succeeds exactly when the ROM fits   *)
(* in memory[0x200 ..= 0xFFF], at most 3584 bytes, and then leaves the     *)
(* bytes of the ROM in order from 0x200; a longer ROM is refused with the  *)
(* too-large error.                                                        *)
C21_LoadRomBounds ==
    [][(at = "load" /\ rom_file.open = "Ok") =>
          LET bytes == rom_file.bytes IN
          IF Len(bytes) <= LAST_ADDR - ROM_START + 1
          THEN /\ at' = "poll"
               /\ \A k \in 1 .. Len(bytes) : Byte_at(memory', ROM_START + k - 1) = bytes[k]
          ELSE /\ at' = "panic"
               /\ load_rom(memory, rom_file).err = "Too many bytes"]_vars

----------------------------------------------------------------------------
(* The operands: claim C26, under OperandSpec.                             *)

ValidOperands(op) ==
    /\ "vx" \in DOMAIN op => op.vx < 16
    /\ "vy" \in DOMAIN op => op.vy < 16
    /\ "n" \in DOMAIN op => op.n < 16
    /\ "addr" \in DOMAIN op => op.addr <= LAST_ADDR

RegisterFailures == {Fail("Invalid register"), Fail("Invalid register(s)")}

(* C26: every instruction the run loop has from the decoder has valid      *)
(* operands, each register index and the sprite height below 16 and each   *)
(* address at most 0xFFF, and no handler has returned Fail for an invalid  *)
(* register.                                                               *)
C26_OperandsValid ==
    /\ ins.opt = "Some" => ValidOperands(ins.val)
    /\ result \notin RegisterFailures

(* C26 witness: an instruction on the last register twice, executed. *)
C26_Witness ==
    at = "tick" /\ ins = Some(Xor(15, 15)) /\ result = Success

----------------------------------------------------------------------------
(* The keyboard: claims C15 and C16, under WaitSpec.                       *)

Waiting == (at = "exec" /\ ins.val.tag = "LdK") \/ at = "ldk"

Pressed(ks) == {k \in 0 .. 15 : ks[k]}

(* A key is held: the poll of the events queued now would end with a key   *)
(* down, and with no quit.                                                 *)
KeyHeld == ~draw_events(pending).exit /\ Pressed(draw_events(pending).keys) # {}

(* C15: LdK(vx) completes only on a key snapshot with a key down, the one  *)
(* the run loop polled or the one its own last poll left; it completes     *)
(* with Success and V[vx] the lowest index of a key down in that snapshot, *)
(* the other registers as they were; with no key down in the snapshot it   *)
(* goes on waiting, and with one it completes (unless the poll ended the   *)
(* process); and a wait does not go on with a key held: it completes,      *)
(* unless the key is released or a quit is raised before the wait polls    *)
(* again.                                                                  *)
C15_KeyWait ==
    /\ [][Waiting =>
             /\ at' = "tick" =>
                   /\ result' = Success
                   /\ Pressed(keys') # {}
                   /\ V'[ins.val.vx] \in Pressed(keys')
                   /\ \A k \in Pressed(keys') : V'[ins.val.vx] <= k
                   /\ \A r \in 0 .. 15 : r # ins.val.vx => V'[r] = V[r]
             /\ (Pressed(keys') = {} /\ pending' = <<>>) => at' \in {"ldk", "exit"}
             /\ (Pressed(keys') # {} /\ pending' = <<>>) => at' \in {"tick", "exit"}
             /\ at' \in {"tick", "ldk", "exit"}]_vars
    /\ [](at = "ldk" => Pressed(keys) = {})
    /\ (at = "ldk" /\ KeyHeld) ~> ((at = "tick" /\ result = Success) \/ ~KeyHeld)

(* C15 witness: the second of two waits completed with key 0 while keys 0  *)
(* and 1 were down, the first having completed with key 1.                 *)
C15_Witness ==
    /\ at = "tick" /\ steps = 2 /\ ins = Some(LdK(1)) /\ result = Success
    /\ keys[0] /\ keys[1] /\ V[0] = 1 /\ V[1] = 0

QuitSignal(event) ==
    event.type = "Quit" \/ (event.type = "KeyDown" /\ event.keycode = "Escape")

QuitPending == \E k \in DOMAIN pending : QuitSignal(pending[k])

(* C16: a quit signal (the window closed, or Escape going down) stays      *)
(* queued until a poll takes it; the poll that takes it, in run or in the  *)
(* wait of LdK, ends the process there; once ended nothing more happens;   *)
(* and a queued quit is always taken, the wait of LdK included.            *)
C16_QuitObserved ==
    /\ [][QuitPending => (QuitPending' \/ at' = "exit")]_vars
    /\ [][(QuitPending /\ pending' = <<>>) => (at' = "exit" /\ cpu' = cpu /\ screen' = screen)]_vars
    /\ [][at # "exit"]_vars
    /\ QuitPending ~> (at = "exit")
    /\ (at = "ldk" /\ QuitPending) ~> (at = "exit")

(* C16 witness: the process ended in the wait of LdK, by Escape. *)
C16_Witness ==
    /\ at = "exit" /\ ins = Some(LdK(0)) /\ steps = 1 /\ result = NotRun
    /\ events_left = 0 /\ keys = [k \in 0 .. 15 |-> FALSE]

====
